---- MODULE Spec2Model ----
(***************************************************************************)
(* Seashell: SSH front door with username-based routing.                   *)
(*                                                                         *)
(* The module models the permission evaluator (internal/config/            *)
(* permissions.go), the fail2ban rate limiter (internal/fail2ban), the     *)
(* session context (internal/sshctx), the authentication callbacks         *)
(* (auth.go), the router (internal/router) and the backends                *)
(* (internal/backends): what a handler call does on its backend, the       *)
(* serial mode parser, the handlers while they pipe a session and the      *)
(* prompt for the upstream password; the limiter's mutex under concurrent  *)
(* callers; and main from its start to the process's exit (main.go).       *)
(*                                                                         *)
(* Go strings are sequences of one-character strings.  A nil pointer or a  *)
(* nil map is a record with isNil = TRUE.                                  *)
(***************************************************************************)
EXTENDS Integers, Sequences, FiniteSets, TLC

VARIABLES
    mIn,        \* matchPattern call: the arguments (pattern, item)
    mOut,       \* matchPattern call: the returned value, <<>> before the call
    pIn,        \* IsAllowed call: the receiver, the user and the items
    pOut,       \* IsAllowed call: the returned value, <<>> before the call
    f2b,        \* *fail2ban.Fail2Ban built by main: nil, or limit and amount
    attempts,   \* Fail2Ban.attempts: map from IP string to failed logins
    env,        \* the clients of the run: connection slots and SSH usernames
    conn,       \* per connection: position, address, ssh.Context, callback locals
    hist,       \* history: AddFailedLogin calls per IP since the last reset
    last,       \* history: the operation that took the latest step
    rt,         \* a Router: routes, middlewares, Handle calls, latest session
    bk          \* a backend handler: a call's inputs and outcome, a
                \* parseSerialMode call, or the handler piping its session

matchVars == <<mIn, mOut>>
permVars  == <<pIn, pOut>>
authVars  == <<f2b, attempts, env, conn, hist, last>>
routerVars == <<rt>>
backVars  == <<bk>>
vars      == <<mIn, mOut, pIn, pOut, f2b, attempts, env, conn, hist, last, rt, bk>>

(***************************************************************************)
(* Bounds of the model.                                                    *)
(***************************************************************************)
MaxPatLen     == 3   \* longest pattern and item handed to matchPattern
MaxItems      == 2   \* longest item list handed to IsAllowed
MaxUserGroups == 2   \* longest group list of a user handed to IsAllowed
MaxAmount     == 2   \* largest configured fail2ban attempts value
MaxCount      == 3   \* cap of one address's failed-login counter
MaxLabelLen   == 3   \* longest SSH username in the label specification
MaxRoutes     == 2   \* most Handle calls on the router of SpecRouter
MaxMiddlewares == 2  \* most Use calls on the router of SpecRouter
MaxArgLen     == 2   \* longest routing argument of a session of SpecRouter
MaxModeLen    == 5   \* longest string handed to parseSerialMode
MaxResizes    == 2   \* most window changes a client sends in one session

(***************************************************************************)
(* Generic helpers.                                                        *)
(***************************************************************************)
None == <<>>

SeqsUpTo(S, n) == UNION {[1..k -> S] : k \in 0..n}

\* All maps whose key set is a subset of K and whose values are in V.
MapsOver(K, V) == UNION {[D -> V] : D \in SUBSET K}

(***************************************************************************)
(* Go's strings package, restricted to one-character separators.           *)
(***************************************************************************)
RECURSIVE IndexFrom(_, _, _)
IndexFrom(s, ch, i) ==
    IF i > Len(s) THEN 0
    ELSE IF s[i] = ch THEN i
    ELSE IndexFrom(s, ch, i + 1)

\* strings.Index: position of the first ch in s, 0 when there is none.
Index(s, ch) == IndexFrom(s, ch, 1)

RECURSIVE LastIndexFrom(_, _, _)
LastIndexFrom(s, ch, i) ==
    IF i < 1 THEN 0
    ELSE IF s[i] = ch THEN i
    ELSE LastIndexFrom(s, ch, i - 1)

\* strings.LastIndex: position of the last ch in s, 0 when there is none.
LastIndex(s, ch) == LastIndexFrom(s, ch, Len(s))

\* strings.Cut: slices s around the first ch.
Cut(s, ch) ==
    LET i == Index(s, ch) IN
    IF i > 0
    THEN [before |-> SubSeq(s, 1, i - 1), after |-> SubSeq(s, i + 1, Len(s)), found |-> TRUE]
    ELSE [before |-> s, after |-> <<>>, found |-> FALSE]

\* The same around the last ch: what Cut is not.
CutLast(s, ch) ==
    LET i == LastIndex(s, ch) IN
    IF i > 0
    THEN [before |-> SubSeq(s, 1, i - 1), after |-> SubSeq(s, i + 1, Len(s)), found |-> TRUE]
    ELSE [before |-> s, after |-> <<>>, found |-> FALSE]

HasPrefix(s, p) == Len(s) >= Len(p) /\ SubSeq(s, 1, Len(p)) = p

HasSuffix(s, x) == Len(s) >= Len(x) /\ SubSeq(s, Len(s) - Len(x) + 1, Len(s)) = x

(***************************************************************************)
(* internal/config/permissions.go                                          *)
(***************************************************************************)
\* matchPattern cutting the pattern at its last `*`.
matchPattern_lastStar(pattern, item) ==
    IF pattern = <<"*">> THEN TRUE
    ELSE LET c == CutLast(pattern, "*") IN
         IF c.found
         THEN HasPrefix(item, c.before) /\ HasSuffix(item, c.after)
         ELSE pattern = item

matchPattern(pattern, item) ==
    IF pattern = <<"*">> THEN TRUE
    ELSE LET c == Cut(pattern, "*") IN
         IF c.found
         THEN HasPrefix(item, c.before) /\ HasSuffix(item, c.after)
         ELSE pattern = item

\* The inner loops of IsAllowed: some pattern of perms[kind] matches item.
listMatches(perms, kind, item) ==
    /\ kind \in DOMAIN perms
    /\ \E i \in 1..Len(perms[kind]) : matchPattern(perms[kind][i], item)

\* groupLoop that stops at the first group that allows the item.
RECURSIVE groupLoop_allowFirst(_, _, _, _, _)
groupLoop_allowFirst(m, groups, item, i, allowed) ==
    IF i > Len(groups) THEN [allowed |-> allowed, denied |-> FALSE]
    ELSE IF groups[i] \notin DOMAIN m THEN groupLoop_allowFirst(m, groups, item, i + 1, allowed)
    ELSE IF listMatches(m[groups[i]], "deny", item) THEN [allowed |-> allowed, denied |-> TRUE]
    ELSE IF listMatches(m[groups[i]], "allow", item) THEN [allowed |-> TRUE, denied |-> FALSE]
    ELSE groupLoop_allowFirst(m, groups, item, i + 1, allowed)

\* The loop over groups for one item, from group i on; allowed is the flag
\* set so far.  A deny hit leaves the loop at once.
RECURSIVE groupLoop(_, _, _, _, _)
groupLoop(m, groups, item, i, allowed) ==
    IF i > Len(groups) THEN [allowed |-> allowed, denied |-> FALSE]
    ELSE IF groups[i] \notin DOMAIN m THEN groupLoop(m, groups, item, i + 1, allowed)
    ELSE IF listMatches(m[groups[i]], "deny", item) THEN [allowed |-> allowed, denied |-> TRUE]
    ELSE groupLoop(m, groups, item, i + 1,
                   allowed \/ listMatches(m[groups[i]], "allow", item))

\* The loop over items, from item k on: false at the first failing item.
RECURSIVE itemLoop(_, _, _, _)
itemLoop(m, groups, items, k) ==
    IF k > Len(items) THEN TRUE
    ELSE LET r == groupLoop(m, groups, items[k], 1, FALSE) IN
         IF r.denied \/ ~r.allowed THEN FALSE
         ELSE itemLoop(m, groups, items, k + 1)

\* IsAllowed without the default-deny policy: an item no group mentions passes.
IsAllowed_defaultAllow(pm, u, items) ==
    IF pm.isNil THEN TRUE
    ELSE \A k \in 1..Len(items) :
            ~groupLoop(pm.m, Append(u.Groups, "all"), items[k], 1, FALSE).denied

IsAllowed(pm, u, items) ==
    IF pm.isNil THEN TRUE
    ELSE itemLoop(pm.m, Append(u.Groups, "all"), items, 1)

(***************************************************************************)
(* internal/config: the user directory (Auth.Users) and argon2id hashes.   *)
(***************************************************************************)
\* argon2id.CreateHash: the encoded hash of a password.
CreateHash(password) == <<"$argon2id", password>>

\* argon2id.ComparePasswordAndHash: an error for a string that is no
\* encoded hash, otherwise whether the password hashes to it.
ComparePasswordAndHash(password, hash) ==
    IF Len(hash) = 2 /\ hash[1] = "$argon2id"
    THEN [match |-> hash[2] = password, err |-> FALSE]
    ELSE [match |-> FALSE, err |-> TRUE]

\* A line of authorized_keys for key k.
AuthorizedKey(k) == <<"ssh-ed25519", k>>

\* ssh.ParseAuthorizedKey: the key of a well-formed line, an error otherwise.
ParseAuthorizedKey(line) ==
    IF Len(line) = 2 /\ line[1] = "ssh-ed25519"
    THEN [key |-> line[2], err |-> FALSE]
    ELSE [key |-> "", err |-> TRUE]

\* ssh.KeysEqual
KeysEqual(a, b) == a = b

\* cfg.Auth.Users: the user blocks of the configuration, in file order.
Users ==
    << [Name |-> <<"a">>, Password |-> CreateHash("p"), Groups |-> <<"g1">>,
        Pubkeys |-> << <<"garbage">>, AuthorizedKey("k") >>],
       [Name |-> <<"b">>, Password |-> <<>>, Groups |-> <<>>,
        Pubkeys |-> << AuthorizedKey("j") >>],
       [Name |-> <<"a">>, Password |-> CreateHash("q"), Groups |-> <<"g2">>,
        Pubkeys |-> << >>] >>

\* What clients offer.
Passwords == {"p", "q"}
Keys      == {"k", "j"}

(***************************************************************************)
(* internal/fail2ban                                                       *)
(***************************************************************************)
\* Remote addresses of accepted connections: the listener is a TCP listener.
Addrs ==
    { [kind |-> "tcp", ip |-> <<"1">>, port |-> <<"7">>],
      [kind |-> "tcp", ip |-> <<"1">>, port |-> <<"8">>],
      [kind |-> "tcp", ip |-> <<"2">>, port |-> <<"7">>] }

\* net.Addr.String()
AddrString(addr) == addr.ip \o <<":">> \o addr.port

\* getAddrString keeping the port: one counter per connection, not per host.
getAddrString_withPort(addr) == AddrString(addr)

getAddrString(addr) ==
    IF addr.kind \in {"tcp", "ip", "udp"} THEN addr.ip
    ELSE LET addrstr == AddrString(addr)
             idx     == LastIndex(addrstr, ":")
         IN IF idx = 0 THEN addrstr ELSE SubSeq(addrstr, 1, idx - 1)

\* Reading a Go map: the zero value for a missing key.
MapGet(m, k) == IF k \in DOMAIN m THEN m[k] ELSE 0

MapPut(m, k, v) == [x \in DOMAIN m \cup {k} |-> IF x = k THEN v ELSE m[x]]

\* Configurations of the limiter that main can build: none (no fail2ban
\* block), or New(limit, attempts) with any int as attempts.  The limit is
\* the period of the reset goroutine and is not part of the state.
F2bConfigs ==
    { [isNil |-> TRUE, amount |-> 0] } \cup
    { [isNil |-> FALSE, amount |-> a] : a \in 0..MaxAmount }

\* LoginAllowed letting the attempt that reaches the limit through.
LoginAllowed_offByOne(f, att, addr) ==
    IF f.isNil THEN TRUE
    ELSE MapGet(att, getAddrString(addr)) <= f.amount

LoginAllowed(f, att, addr) ==
    IF f.isNil THEN TRUE
    ELSE MapGet(att, getAddrString(addr)) < f.amount

\* AddFailedLogin storing 1 instead of adding 1.
AddFailedLogin_overwrite(f, att, addr) ==
    IF f.isNil THEN att
    ELSE MapPut(att, getAddrString(addr), 1)

\* AddFailedLogin: the attempts map after the call.
AddFailedLogin(f, att, addr) ==
    IF f.isNil THEN att
    ELSE MapPut(att, getAddrString(addr), MapGet(att, getAddrString(addr)) + 1)

(***************************************************************************)
(* internal/sshctx and auth.go: user resolution.                           *)
(***************************************************************************)
Some(x) == <<x>>

\* The first user of the directory named username, from index i on; 0 if none.
RECURSIVE findUser(_, _, _)
findUser(users, username, i) ==
    IF i > Len(users) THEN 0
    ELSE IF users[i].Name = username THEN i
    ELSE findUser(users, username, i + 1)

\* cutLabel trying `~` before `:`.
cutLabel_tildeFirst(name) ==
    LET c == Cut(name, "~") IN
    IF c.found THEN c ELSE Cut(name, ":")

\* cutLabel taking a name without separator as a bare user name.
cutLabel_bareName(name) ==
    LET c == Cut(name, ":")
        d == Cut(name, "~")
    IN IF c.found THEN c
       ELSE IF d.found THEN d
       ELSE [before |-> name, after |-> <<>>, found |-> TRUE]

\* The outcome of the two strings.Cut calls of getUser: `:` first, `~` when
\* the name has no `:`.
cutLabel(name) ==
    LET c == Cut(name, ":") IN
    IF c.found THEN c ELSE Cut(name, "~")

\* getUser without its SetUser call: the user is returned, never bound.
getUser_noSetUser(ctxUser, ctxArg, name) ==
    LET cut == cutLabel(name) IN
    IF ~cut.found
    THEN [user |-> None, ok |-> FALSE, ctxUser |-> ctxUser, ctxArg |-> ctxArg]
    ELSE LET i == findUser(Users, cut.before, 1) IN
         IF i > 0
         THEN [user |-> Some(Users[i]), ok |-> TRUE,
               ctxUser |-> ctxUser, ctxArg |-> Some(cut.after)]
         ELSE [user |-> None, ok |-> FALSE,
               ctxUser |-> ctxUser, ctxArg |-> Some(cut.after)]

\* getUser on a context holding ctxUser and ctxArg (sshctx values, <<>> when
\* unset) for the SSH username name: the returned user and flag, and the
\* context values after the call.
getUser(ctxUser, ctxArg, name) ==
    IF ctxUser # None
    THEN [user |-> ctxUser, ok |-> TRUE, ctxUser |-> ctxUser, ctxArg |-> ctxArg]
    ELSE LET cut == cutLabel(name) IN
         IF ~cut.found
         THEN [user |-> None, ok |-> FALSE, ctxUser |-> ctxUser, ctxArg |-> ctxArg]
         ELSE LET i == findUser(Users, cut.before, 1) IN
              IF i > 0
              THEN [user |-> Some(Users[i]), ok |-> TRUE,
                    ctxUser |-> Some(Users[i]), ctxArg |-> Some(cut.after)]
              ELSE [user |-> None, ok |-> FALSE,
                    ctxUser |-> ctxUser, ctxArg |-> Some(cut.after)]

(***************************************************************************)
(* internal/router                                                         *)
(***************************************************************************)
\* A pattern is its source text cut into items: a run of atoms outside any
\* group (grp none), inside an unnamed group (plain), inside (?P<arg>...)
\* (arg), or after a `(` that is never closed (open).  An atom is a literal
\* character, `.+`, `^` or `$`.
Compile(pattern) ==
    [err |-> \E i \in 1..Len(pattern) : pattern[i].grp = "open", re |-> pattern]

\* The atoms of a compiled pattern in order, and the atoms before item k.
RECURSIVE Atoms(_, _)
Atoms(re, k) == IF k = 0 THEN <<>> ELSE Atoms(re, k - 1) \o re[k].body

\* The preferred match of atoms k.. of a pattern at position i of s: None,
\* or the positions reached after each of these atoms.  `.+` is greedy: it
\* tries the longest run first (matchRest, from end position j downwards).
RECURSIVE matchAtoms(_, _, _, _)
RECURSIVE matchRest(_, _, _, _, _)
matchAtoms(atoms, k, s, i) ==
    IF k > Len(atoms) THEN Some(<<>>)
    ELSE LET a    == atoms[k]
             step(j) == LET r == matchAtoms(atoms, k + 1, s, j) IN
                        IF r = None THEN None ELSE Some(<<j>> \o r[1])
         IN CASE a = "^"  -> IF i = 1 THEN step(i) ELSE None
              [] a = "$"  -> IF i = Len(s) + 1 THEN step(i) ELSE None
              [] a = ".+" -> matchRest(atoms, k, s, i, Len(s) + 1)
              [] OTHER    -> IF i <= Len(s) /\ s[i] = a THEN step(i + 1) ELSE None

matchRest(atoms, k, s, i, j) ==
    IF j <= i THEN None
    ELSE LET r == matchAtoms(atoms, k + 1, s, j) IN
         IF r # None THEN Some(<<j>> \o r[1])
         ELSE matchRest(atoms, k, s, i, j - 1)

\* The capturing groups of a compiled pattern: the indexes of their items.
RECURSIVE groupItems(_, _)
groupItems(re, k) ==
    IF k = 0 THEN <<>>
    ELSE groupItems(re, k - 1) \o
         (IF re[k].grp \in {"plain", "arg"} THEN <<k>> ELSE <<>>)

\* regexp.FindStringSubmatch: <<>> (nil) when the pattern matches nowhere,
\* else the leftmost match followed by the capture of every group.
FindStringSubmatch(re, s) ==
    LET atoms == Atoms(re, Len(re))
        at    == {i \in 1..(Len(s) + 1) : matchAtoms(atoms, 1, s, i) # None}
    IN IF at = {} THEN <<>>
       ELSE LET i      == CHOOSE j \in at : \A k \in at : j <= k
                ends   == matchAtoms(atoms, 1, s, i)[1]
                pos(n) == IF n = 0 THEN i ELSE ends[n]
                gs     == groupItems(re, Len(re))
                cap(k) == SubSeq(s, pos(Len(Atoms(re, k - 1))), pos(Len(Atoms(re, k))) - 1)
            IN << SubSeq(s, i, pos(Len(atoms)) - 1) >> \o
               [g \in 1..Len(gs) |-> cap(gs[g])]

\* regexp.SubexpIndex("arg"): Go's index of the first group named arg, -1
\* when there is none.
SubexpIndex(re) ==
    LET gs    == groupItems(re, Len(re))
        named == {g \in 1..Len(gs) : re[gs[g]].grp = "arg"}
    IN IF named = {} THEN 0 - 1
       ELSE CHOOSE g \in named : \A h \in named : g <= h

\* cleanArg taking group 1 whatever the groups are named.
cleanArg_firstGroup(re, matches, arg) ==
    IF Len(matches) >= 2 THEN matches[2] ELSE arg

\* The argument Router.Handler hands to the handler (Go indexes from 0).
cleanArg(re, matches, arg) ==
    IF SubexpIndex(re) # 0 - 1 THEN matches[SubexpIndex(re) + 1]
    ELSE IF Len(matches) >= 2 THEN matches[2]
    ELSE arg

\* strconv.Quote, the %q verb: the string in double quotes, with `"` and
\* `\` escaped by a backslash.
RECURSIVE quoteChars(_, _)
quoteChars(s, n) ==
    IF n = 0 THEN <<>>
    ELSE quoteChars(s, n - 1) \o
         (IF s[n] \in {"\"", "\\"} THEN << "\\", s[n] >> ELSE << s[n] >>)

\* Quote putting the string between double quotes as it is.
Quote_noEscape(s) == << "\"" >> \o s \o << "\"" >>

Quote(s) == << "\"" >> \o quoteChars(s, Len(s)) \o << "\"" >>

\* fmt.Sprintf on string operands: the output for format[i..] when the
\* operands before v[a] are used up.
RECURSIVE sprintfFrom(_, _, _, _)
sprintfFrom(format, v, i, a) ==
    IF i > Len(format)
    THEN IF a > Len(v) THEN <<>>
         ELSE << "%!(EXTRA string=" >> \o v[a] \o << ")" >>
    ELSE IF format[i] # "%"
    THEN << format[i] >> \o sprintfFrom(format, v, i + 1, a)
    ELSE IF i = Len(format) THEN << "%!(NOVERB)" >>
    ELSE LET verb == format[i + 1] IN
         IF verb = "%" THEN << "%" >> \o sprintfFrom(format, v, i + 2, a)
         ELSE IF a > Len(v)
         THEN << "%!", verb, "(MISSING)" >> \o sprintfFrom(format, v, i + 2, a)
         ELSE (CASE verb = "q" -> Quote(v[a])
                 [] verb \in {"s", "v"} -> v[a]
                 [] OTHER -> << "%!", verb, "(string=" >> \o v[a] \o << ")" >>)
              \o sprintfFrom(format, v, i + 2, a + 1)

Sprintf(format, v) == sprintfFrom(format, v, 1, 1)

ErrorPrefix == << "\\x1b[31;1m[ERROR]\\x1b[0m " >>

\* writeError: what one call writes to the session's stderr.  The message
\* is the format string of Fprintf.
writeError(format, v) == ErrorPrefix \o Sprintf(format, v) \o << "\r", "\n" >>

ErrUnauthorized == << "you are not authorized to access this resource" >>

\* Errors a route's handler may return: nil, ErrUnauthorized, and an error
\* of a backend library that quotes a URL with a percent escape.
HandlerErrors ==
    { None, Some(ErrUnauthorized), Some(<< "invalid URL escape ", "%", "z", "z" >>) }

\* Handle storing the route also when the pattern does not compile.
Handle_storeAnyway(rs, name, pattern) ==
    [err |-> Compile(pattern).err,
     routes |-> [x \in DOMAIN rs \cup {pattern} |->
                    IF x = pattern THEN [name |-> name, regex |-> pattern]
                    ELSE rs[x]]]

\* Router.Handle: the returned error and the routes map after the call.
Handle(rs, name, pattern) ==
    LET c == Compile(pattern) IN
    IF c.err THEN [err |-> TRUE, routes |-> rs]
    ELSE [err |-> FALSE,
          routes |-> [x \in DOMAIN rs \cup {pattern} |->
                         IF x = pattern THEN [name |-> name, regex |-> c.re]
                         ELSE rs[x]]]

\* Router.Use: the middlewares after the call.
Use(mws, m) == Append(mws, m)

\* A handler is the sequence of invocations it makes when it is called, as
\* a function of the route bound in the context at that time.  A middleware
\* runs its own code, then next, then its own code again.
wrap(m, next) ==
    << [who |-> m, at |-> "before"] >> \o next \o << [who |-> m, at |-> "after"] >>

\* The loop `handler = middleware(handler)` over the first n middlewares.
RECURSIVE composeFrom(_, _, _)
composeFrom(mws, n, handler) ==
    IF n = 0 THEN handler
    ELSE wrap(mws[n], composeFrom(mws, n - 1, handler))

\* The routes of r that match arg: the ones the range loop may stop at.
matchingRoutes(rs, arg) ==
    {k \in DOMAIN rs : FindStringSubmatch(rs[k].regex, arg) # <<>>}

\* Router.Handler setting the route only after the handler has run.
RouterHandler_routeAfter(rs, mws, ctxArg, ctxRoute, k, err) ==
    LET arg == IF ctxArg = None THEN <<>> ELSE ctxArg[1] IN
    IF matchingRoutes(rs, arg) = {}
    THEN [ctxRoute |-> ctxRoute, calls |-> <<>>,
          stderr |-> << writeError(<< "no matching route found for ", "%", "q" >>, <<arg>>) >>]
    ELSE LET ro    == rs[k]
             ca    == cleanArg(ro.regex, FindStringSubmatch(ro.regex, arg), arg)
             trace == composeFrom(mws, Len(mws), << [who |-> ro.name, at |-> "handler"] >>)
         IN [ctxRoute |-> Some(ro),
             calls |-> [n \in 1..Len(trace) |->
                          [who |-> trace[n].who, at |-> trace[n].at,
                           route |-> ctxRoute, arg |-> ca]],
             stderr |-> IF err = None THEN <<>> ELSE << writeError(err[1], <<>>) >>]

\* Router.Handler going on with the loop after a handler's error.
RouterHandler_nextOnError(rs, mws, ctxArg, ctxRoute, k, err) ==
    LET arg == IF ctxArg = None THEN <<>> ELSE ctxArg[1] IN
    IF matchingRoutes(rs, arg) = {}
    THEN [ctxRoute |-> ctxRoute, calls |-> <<>>,
          stderr |-> << writeError(<< "no matching route found for ", "%", "q" >>, <<arg>>) >>]
    ELSE LET ro    == rs[k]
             ca    == cleanArg(ro.regex, FindStringSubmatch(ro.regex, arg), arg)
             trace == composeFrom(mws, Len(mws), << [who |-> ro.name, at |-> "handler"] >>)
             calls == [n \in 1..Len(trace) |->
                          [who |-> trace[n].who, at |-> trace[n].at,
                           route |-> Some(ro), arg |-> ca]]
         IN [ctxRoute |-> Some(ro),
             calls |-> IF err = None THEN calls ELSE calls \o calls,
             stderr |-> IF err = None THEN <<>> ELSE << writeError(err[1], <<>>) >>]

\* Router.Handler for one session: the route bound in the context after the
\* call, the invocations made (each with the route it finds in the context
\* and the argument it is given), and the writes to the session's stderr.
\* k is the route at which the range over the routes map stops and err the
\* error the route's handler returns.
RouterHandler(rs, mws, ctxArg, ctxRoute, k, err) ==
    LET arg == IF ctxArg = None THEN <<>> ELSE ctxArg[1] IN
    IF matchingRoutes(rs, arg) = {}
    THEN [ctxRoute |-> ctxRoute, calls |-> <<>>,
          stderr |-> << writeError(<< "no matching route found for ", "%", "q" >>, <<arg>>) >>]
    ELSE LET ro    == rs[k]
             ca    == cleanArg(ro.regex, FindStringSubmatch(ro.regex, arg), arg)
             trace == composeFrom(mws, Len(mws), << [who |-> ro.name, at |-> "handler"] >>)
         IN [ctxRoute |-> Some(ro),
             calls |-> [n \in 1..Len(trace) |->
                          [who |-> trace[n].who, at |-> trace[n].at,
                           route |-> Some(ro), arg |-> ca]],
             stderr |-> IF err = None THEN <<>> ELSE << writeError(err[1], <<>>) >>]

\* cfg.Routes: the route blocks of the configuration of Spec, in file order:
\* x(.+) and x.
cfgRoutes ==
    << [Name |-> "first",
        Match |-> << [grp |-> "none", body |-> <<"x">>], [grp |-> "plain", body |-> <<".+">>] >>],
       [Name |-> "second",
        Match |-> << [grp |-> "none", body |-> <<"x">>] >>] >>

\* Router.Handle for every route of the configuration, as main does: the
\* routes map after the first n routes.  main ignores the returned error.
RECURSIVE handleAll(_, _)
handleAll(rs, n) ==
    IF n = 0 THEN [x \in {} |-> 0]
    ELSE Handle(handleAll(rs, n - 1), rs[n].Name, rs[n].Match).routes

routes == handleAll(cfgRoutes, Len(cfgRoutes))

\* The middlewares of the router main builds: Logging.
middlewares == Use(<<>>, "logging")

(***************************************************************************)
(* internal/backends.  A handler call is modelled by what it returns and   *)
(* by the operations it makes on its backend, in order: effects.  checked  *)
(* says whether the call evaluated IsAllowed and allowed what it returned. *)
(* The outcomes of the backend's own operations are inputs of the call.    *)
(***************************************************************************)
Ret(err, effects, checked, allowed) ==
    [err |-> err, effects |-> effects, checked |-> checked, allowed |-> allowed]

Effect(op, what) == [op |-> op, what |-> what]

ErrSettings == << "settings do not fit the backend" >>
ErrNoPty    == << "this route only accepts pty sessions" >>

\* A run-time panic of the handler's goroutine, in the place of the returned
\* error: nothing recovers it, the server process ends.
Panic(msg) == << << "panic" >>, msg >>

Panicked(err) == Len(err) = 2

\* strings.Split(s, sep) for a one-character separator.
RECURSIVE Split(_, _)
Split(s, sep) ==
    LET i == Index(s, sep) IN
    IF i = 0 THEN << s >>
    ELSE << SubSeq(s, 1, i - 1) >> \o Split(SubSeq(s, i + 1, Len(s)), sep)

\* path.Match for patterns of literals, `?` and `*` and names without `/`.
RECURSIVE Glob(_, _)
Glob(p, s) ==
    IF p = <<>> THEN s = <<>>
    ELSE IF Head(p) = "*"
    THEN \E n \in 0..Len(s) : Glob(Tail(p), SubSeq(s, n + 1, Len(s)))
    ELSE /\ s # <<>>
         /\ Head(p) \in {"?", Head(s)}
         /\ Glob(Tail(p), Tail(s))

\* strconv.ParseUint(s, 10, 16) succeeds: decimal digits, at most 65535.
PortOk(s) ==
    /\ Len(s) \in 1..5
    /\ \A i \in 1..Len(s) : s[i] \in {"0", "1", "2", "3", "4", "5", "6", "7", "8", "9"}
    /\ Len(s) = 5 => s[1] \in {"0", "1", "2", "3", "4", "5"}

\* The pattern loop of Proxy going on after a match.
RECURSIVE hostLoop_lastMatch(_, _, _)
hostLoop_lastMatch(hosts, arg, i) ==
    LET c       == Cut(hosts[i], ":")
        portstr == IF c.found THEN c.after ELSE << "2", "2" >>
        rest    == hostLoop_lastMatch(hosts, arg, i + 1)
    IN IF i < Len(hosts) /\ rest.matched THEN rest
       ELSE IF Glob(c.before, arg) THEN [matched |-> TRUE, addr |-> arg, portstr |-> portstr]
       ELSE IF i = Len(hosts) THEN [matched |-> FALSE, addr |-> c.before, portstr |-> portstr]
       ELSE rest

\* The host selection of Proxy: the pattern loop over hosts, from pattern i
\* on; the address and port of the last pattern tried and whether it matched.
RECURSIVE hostLoop(_, _, _)
hostLoop(hosts, arg, i) ==
    LET c       == Cut(hosts[i], ":")
        addr    == c.before
        portstr == IF c.found THEN c.after ELSE << "2", "2" >>
    IN IF Glob(addr, arg) THEN [matched |-> TRUE, addr |-> arg, portstr |-> portstr]
       ELSE IF i = Len(hosts) THEN [matched |-> FALSE, addr |-> addr, portstr |-> portstr]
       ELSE hostLoop(hosts, arg, i + 1)

\* The handler of the proxy backend.
Proxy(in) ==
    IF ~IsAllowed(in.perms, in.user, << <<"*">> >>)
    THEN Ret(Some(ErrUnauthorized), <<>>, TRUE, FALSE)
    ELSE IF in.settings.err THEN Ret(Some(ErrSettings), <<>>, TRUE, TRUE)
    ELSE IF ~in.pty THEN Ret(Some(ErrNoPty), <<>>, TRUE, TRUE)
    ELSE IF in.settings.host = None /\ in.settings.hosts = <<>>
    THEN Ret(Some(<< "no host configuration provided" >>), <<>>, TRUE, TRUE)
    ELSE LET sel == IF in.settings.host = None
                    THEN hostLoop(in.settings.hosts, in.arg, 1)
                    ELSE LET c == Cut(in.settings.host[1], ":") IN
                         [matched |-> FALSE, addr |-> c.before,
                          portstr |-> IF c.found THEN c.after ELSE << "2", "2" >>]
         IN IF ~sel.matched
            THEN Ret(Some(<< "provided argument doesn't match any host patterns in configuration" >>),
                     <<>>, TRUE, TRUE)
            ELSE IF ~PortOk(sel.portstr)
            THEN Ret(Some(<< "invalid port" >>), <<>>, TRUE, TRUE)
            ELSE IF in.settings.privkey = "unreadable"
            THEN Ret(Some(<< "private key" >>), <<>>, TRUE, TRUE)
            ELSE LET d == Effect("dial", sel.addr \o << ":" >> \o sel.portstr) IN
                 IF in.world = "dialErr"
                 THEN Ret(Some(<< "dial failed" >>), << d >>, TRUE, TRUE)
                 ELSE Ret(None, << d, Effect("shell", <<>>) >>, TRUE, TRUE)

\* Docker asking for the PTY after it created the exec.
Docker_ptyLate(in) ==
    IF ~IsAllowed(in.perms, in.user, << in.arg >>)
    THEN Ret(Some(ErrUnauthorized), <<>>, TRUE, FALSE)
    ELSE IF in.settings.err THEN Ret(Some(ErrSettings), <<>>, TRUE, TRUE)
    ELSE IF in.world = "clientErr" THEN Ret(Some(<< "docker client" >>), <<>>, TRUE, TRUE)
    ELSE LET e == Effect("exec_create", in.arg) IN
         IF ~in.pty THEN Ret(Some(ErrNoPty), << e >>, TRUE, TRUE)
         ELSE IF in.world = "createErr"
         THEN Ret(Some(<< "no such container" >>), << e >>, TRUE, TRUE)
         ELSE Ret(None, << e, Effect("exec_attach", in.arg), Effect("exec_start", in.arg) >>,
                  TRUE, TRUE)

\* Docker creating the exec before it checks the permission.
Docker_execFirst(in) ==
    IF in.settings.err THEN Ret(Some(ErrSettings), <<>>, FALSE, FALSE)
    ELSE IF ~in.pty THEN Ret(Some(ErrNoPty), <<>>, FALSE, FALSE)
    ELSE LET e == Effect("exec_create", in.arg) IN
         IF ~IsAllowed(in.perms, in.user, << in.arg >>)
         THEN Ret(Some(ErrUnauthorized), << e >>, TRUE, FALSE)
         ELSE Ret(None, << e >>, TRUE, TRUE)

\* The handler of the docker backend.
Docker(in) ==
    IF ~IsAllowed(in.perms, in.user, << in.arg >>)
    THEN Ret(Some(ErrUnauthorized), <<>>, TRUE, FALSE)
    ELSE IF in.settings.err THEN Ret(Some(ErrSettings), <<>>, TRUE, TRUE)
    ELSE IF ~in.pty THEN Ret(Some(ErrNoPty), <<>>, TRUE, TRUE)
    ELSE IF in.world = "clientErr" THEN Ret(Some(<< "docker client" >>), <<>>, TRUE, TRUE)
    ELSE LET e == Effect("exec_create", in.arg) IN
         IF in.world = "createErr"
         THEN Ret(Some(<< "no such container" >>), << e >>, TRUE, TRUE)
         ELSE Ret(None, << e, Effect("exec_attach", in.arg), Effect("exec_start", in.arg) >>,
                  TRUE, TRUE)

\* The cluster of the model: job w with the task groups g (tasks t, u) and h
\* (task s), job v with the task group k (task t); allocation i of w's group
\* g and allocation j of v's group k.
NomadJobs ==
    [job \in { << "w" >>, << "v" >> } |->
        IF job = << "w" >>
        THEN << [Name |-> << "g" >>, Tasks |-> << << "t" >>, << "u" >> >>],
                [Name |-> << "h" >>, Tasks |-> << << "s" >> >>] >>
        ELSE << [Name |-> << "k" >>, Tasks |-> << << "t" >> >>] >>]

NomadAllocs ==
    << [ID |-> << "i" >>, JobID |-> << "w" >>, TaskGroup |-> << "g" >>],
       [ID |-> << "j" >>, JobID |-> << "v" >>, TaskGroup |-> << "k" >>] >>

\* Jobs().Allocations(job): the allocations of the job named job.
jobAllocations(job) == SelectSeq(NomadAllocs, LAMBDA a : a.JobID = job)

\* Allocations().Info(id): the allocation with this ID, None for an error.
allocInfo(id) ==
    IF \E n \in 1..Len(NomadAllocs) : NomadAllocs[n].ID = id
    THEN Some(NomadAllocs[CHOOSE n \in 1..Len(NomadAllocs) : NomadAllocs[n].ID = id])
    ELSE None

\* strconv.Atoi: an optional sign and decimal digits; ok is FALSE for the
\* error return.
DigitChars == << "0", "1", "2", "3", "4", "5", "6", "7", "8", "9" >>

IsDigit(c) == \E d \in 1..Len(DigitChars) : DigitChars[d] = c

digitValue(c) == (CHOOSE d \in 1..Len(DigitChars) : DigitChars[d] = c) - 1

RECURSIVE digitsValue(_, _)
digitsValue(s, n) ==
    IF n = 0 THEN 0 ELSE 10 * digitsValue(s, n - 1) + digitValue(s[n])

Atoi(s) ==
    LET signed == s # <<>> /\ s[1] \in {"+", "-"}
        body   == IF signed THEN Tail(s) ELSE s
    IN IF body = <<>> \/ \E i \in 1..Len(body) : ~IsDigit(body[i])
       THEN [ok |-> FALSE, n |-> 0]
       ELSE [ok |-> TRUE,
             n  |-> IF signed /\ s[1] = "-" THEN 0 - digitsValue(body, Len(body))
                    ELSE digitsValue(body, Len(body))]

\* Job.LookupTaskGroup: the index of the group named name among the task
\* groups of a job, 0 for nil.
LookupTaskGroup(groups, name) ==
    IF \E g \in 1..Len(groups) : groups[g].Name = name
    THEN CHOOSE g \in 1..Len(groups) : groups[g].Name = name
    ELSE 0

\* The end of every branch of Nomad: the permission check on the three tags
\* and the exec of task in alloc.  before holds the queries made so far.
nomadExec(in, before, job, alloc, task, group) ==
    IF ~IsAllowed(in.perms, in.user,
                  << << "job:" >> \o job, << "task:" >> \o task, << "group:" >> \o group >>)
    THEN Ret(Some(ErrUnauthorized), before, TRUE, FALSE)
    ELSE LET x == Effect("exec", << alloc.ID, task >>) IN
         IF in.world = "execErr"
         THEN Ret(Some(<< "exec failed" >>), Append(before, x), TRUE, TRUE)
         ELSE Ret(None, Append(before, x), TRUE, TRUE)

\* The handler of the nomad backend.
Nomad(in) ==
    IF in.settings.err THEN Ret(Some(ErrSettings), <<>>, FALSE, FALSE)
    ELSE IF ~in.pty THEN Ret(Some(ErrNoPty), <<>>, FALSE, FALSE)
    ELSE IF in.world = "clientErr" THEN Ret(Some(<< "nomad client" >>), <<>>, FALSE, FALSE)
    ELSE
    LET args      == Split(in.arg, in.settings.delimiter)
        q1        == << Effect("allocations", args[1]) >>
        allocList == IF in.world = "noAllocs" THEN <<>> ELSE jobAllocations(args[1])
    IN
    IF in.world = "allocErr" THEN Ret(Some(<< "allocations failed" >>), q1, FALSE, FALSE)
    ELSE IF allocList = <<>>
    THEN Ret(Some(<< "job has no allocations" >>), q1, FALSE, FALSE)
    ELSE IF Len(args) > 4 THEN Ret(None, q1, FALSE, FALSE)
    ELSE
    LET ref     == IF Len(args) = 4 THEN Atoi(args[2]) ELSE [ok |-> FALSE, n |-> 0]
        allocID == IF Len(args) < 4 THEN allocList[1].ID
                   ELSE IF ref.ok /\ 0 <= ref.n /\ ref.n < Len(allocList)
                   THEN allocList[ref.n + 1].ID
                   ELSE args[2]
        q2      == Append(q1, Effect("info", allocID))
        info    == IF in.world = "infoErr" THEN None ELSE allocInfo(allocID)
    IN
    IF Len(args) = 4 /\ ref.ok /\ ref.n < 0
    THEN Ret(Panic(<< "index out of range" >>), q1, FALSE, FALSE)
    ELSE IF info = None THEN Ret(Some(<< "allocation not found" >>), q2, FALSE, FALSE)
    ELSE
    LET alloc  == info[1]
        groups == NomadJobs[alloc.JobID]
    IN CASE Len(args) = 1 ->
              nomadExec(in, q2, args[1], alloc, groups[1].Tasks[1], groups[1].Name)
         [] Len(args) = 2 ->
              IF \E k \in 1..Len(groups[1].Tasks) : groups[1].Tasks[k] = args[2]
              THEN nomadExec(in, q2, args[1], alloc, args[2], groups[1].Name)
              ELSE Ret(Some(<< "task not found" >>), q2, FALSE, FALSE)
         [] OTHER ->
              LET gname == args[Len(args) - 1]
                  g     == IF Len(args) = 4 /\ gname = <<>> THEN 1
                           ELSE LookupTaskGroup(groups, gname)
                  tname == args[Len(args)]
              IN IF g = 0 THEN Ret(Some(<< "task group not found" >>), q2, FALSE, FALSE)
                 ELSE nomadExec(in, q2, args[1], alloc,
                                IF tname = <<>> THEN groups[g].Tasks[1] ELSE tname,
                                groups[g].Name)

\* filepath.Clean: the elements of a path, "." and empty elements dropped
\* and each ".." removing the element before it (none above the root).
RECURSIVE cleanElems(_, _, _)
cleanElems(elems, kept, rooted) ==
    IF elems = <<>> THEN kept
    ELSE LET e == Head(elems) IN
         cleanElems(Tail(elems),
                    CASE e \in { <<>>, << "." >> } -> kept
                      [] e = << ".", "." >> ->
                           IF kept # <<>> /\ kept[Len(kept)] # << ".", "." >>
                           THEN SubSeq(kept, 1, Len(kept) - 1)
                           ELSE IF rooted THEN kept ELSE Append(kept, e)
                      [] OTHER -> Append(kept, e),
                    rooted)

RECURSIVE joinElems(_)
joinElems(elems) ==
    IF elems = <<>> THEN <<>>
    ELSE IF Len(elems) = 1 THEN elems[1]
    ELSE elems[1] \o << "/" >> \o joinElems(Tail(elems))

Clean(p) ==
    LET rooted == p # <<>> /\ p[1] = "/"
        kept   == cleanElems(Split(p, "/"), <<>>, rooted)
    IN IF rooted THEN << "/" >> \o joinElems(kept)
       ELSE IF kept = <<>> THEN << "." >> ELSE joinElems(kept)

\* filepath.Join(dir, name): empty elements are ignored and the result is
\* cleaned.
Join(dir, name) ==
    IF dir = <<>> /\ name = <<>> THEN <<>>
    ELSE IF name = <<>> THEN Clean(dir)
    ELSE IF dir = <<>> THEN Clean(name)
    ELSE Clean(dir \o << "/" >> \o name)

Base(file) ==
    IF file = <<>> THEN << "." >>
    ELSE SubSeq(file, LastIndex(file, "/") + 1, Len(file))

\* The file, baud rate and mode a serial session asks for.
serialTarget(settings, args) ==
    IF settings.file # None
    THEN [file |-> settings.file[1], baudRate |-> args[1],
          config |-> IF Len(args) = 1 THEN <<>> ELSE args[2]]
    ELSE [file |-> Join(settings.directory[1], args[1]),
          baudRate |-> IF Len(args) = 1 THEN <<>> ELSE args[2],
          config |-> IF Len(args) <= 2 THEN <<>> ELSE args[3]]

\* strings.ToLower on the letters of the model.
ToLower(s) ==
    [i \in 1..Len(s) |->
        CASE s[i] = "N" -> "n" [] s[i] = "E" -> "e" [] s[i] = "O" -> "o"
          [] s[i] = "M" -> "m" [] s[i] = "S" -> "s" [] s[i] = "X" -> "x"
          [] OTHER -> s[i]]

Parities ==
    [c \in {"n", "e", "o", "m", "s"} |->
        CASE c = "n" -> "NoParity" [] c = "e" -> "EvenParity" [] c = "o" -> "OddParity"
          [] c = "m" -> "MarkParity" [] c = "s" -> "SpaceParity"]

StopBits ==
    [s \in { << "1" >>, << "1", ".", "5" >>, << "2" >> } |->
        CASE s = << "1" >> -> "OneStopBit" [] s = << "2" >> -> "TwoStopBits"
          [] OTHER -> "OnePointFiveStopBits"]

\* parseSerialMode: the mode a string such as 8n1 stands for, an error, or a
\* panic where cfg[:1] or cfg[1] is out of range.
parseSerialMode(cfg0) ==
    LET cfg == ToLower(cfg0) IN
    IF Len(cfg) < 1
    THEN [err |-> Panic(<< "slice bounds out of range" >>), mode |-> None]
    ELSE IF ~Atoi(SubSeq(cfg, 1, 1)).ok
    THEN [err |-> Some(<< "invalid syntax" >>), mode |-> None]
    ELSE IF Len(cfg) < 2
    THEN [err |-> Panic(<< "index out of range" >>), mode |-> None]
    ELSE IF cfg[2] \notin DOMAIN Parities
    THEN [err |-> Some(<< "unknown parity mode: ", cfg[2] >>), mode |-> None]
    ELSE IF SubSeq(cfg, 3, Len(cfg)) \notin DOMAIN StopBits
    THEN [err |-> Some(<< "unsupported stop bit amount" >>), mode |-> None]
    ELSE [err |-> None,
          mode |-> Some([BaudRate |-> 0, DataBits |-> Atoi(SubSeq(cfg, 1, 1)).n,
                         Parity |-> Parities[cfg[2]],
                         StopBits |-> StopBits[SubSeq(cfg, 3, Len(cfg))]])]

\* getSerialMode: the mode from the argument's tokens, else from the
\* settings.
getSerialMode(opts, baudRate, config) ==
    IF config = <<>> /\ opts.config = None
    THEN [err |-> Some(<< "no serial configuration provided" >>), mode |-> None]
    ELSE LET m == parseSerialMode(IF config = <<>> THEN opts.config[1] ELSE config) IN
         IF m.err # None THEN m
         ELSE IF baudRate = <<>>
         THEN IF opts.baud_rate = None
              THEN [err |-> Some(<< "no baud rate provided" >>), mode |-> None]
              ELSE [err |-> None,
                    mode |-> Some([m.mode[1] EXCEPT !.BaudRate = opts.baud_rate[1]])]
         ELSE IF ~Atoi(baudRate).ok THEN [err |-> Some(<< "invalid syntax" >>), mode |-> None]
         ELSE [err |-> None, mode |-> Some([m.mode[1] EXCEPT !.BaudRate = Atoi(baudRate).n])]

\* The handler of the serial backend.  Whether the port opens comes with the
\* call.
Serial(in) ==
    IF in.settings.err THEN Ret(Some(ErrSettings), <<>>, FALSE, FALSE)
    ELSE IF in.settings.directory = None /\ in.settings.file = None
    THEN Ret(Some(<< "either directory or file must be set in the server config" >>),
             <<>>, FALSE, FALSE)
    ELSE IF ~in.pty THEN Ret(Some(ErrNoPty), <<>>, FALSE, FALSE)
    ELSE LET t == serialTarget(in.settings, Split(in.arg, in.settings.delimiter)) IN
         IF ~IsAllowed(in.perms, in.user, << Base(t.file) >>)
         THEN Ret(Some(ErrUnauthorized), <<>>, TRUE, FALSE)
         ELSE LET m == getSerialMode(in.settings, t.baudRate, t.config) IN
              IF m.err # None THEN Ret(m.err, <<>>, TRUE, TRUE)
              ELSE LET o == Effect("open", [file |-> t.file, mode |-> m.mode[1]]) IN
                   IF in.world = "openErr"
                   THEN Ret(Some(<< "open failed" >>), << o >>, TRUE, TRUE)
                   ELSE Ret(None, << o, Effect("close", t.file) >>, TRUE, TRUE)

\* backends.Get(name)(route) called for a session.
BackendCall(in) ==
    CASE in.backend = "proxy"  -> Proxy(in)
      [] in.backend = "docker" -> Docker(in)
      [] in.backend = "nomad"  -> Nomad(in)
      [] in.backend = "serial" -> Serial(in)

(***************************************************************************)
(* The connections.  The SSH server library runs one connection's          *)
(* callbacks one after the other, and different connections in parallel.   *)
(*                                                                         *)
(* pc: closed, auth (handshake, between callbacks), password and pubkey    *)
(* (inside the callback, past the LoginAllowed check), authed (handshake   *)
(* done), served (Router.Handler has returned).  served holds the          *)
(* invocations Router.Handler made and stderr its writes to stderr.        *)
(* gate, looked, compared, ret record the latest callback invocation: the  *)
(* outcome of LoginAllowed, whether getUser ran, whether a hash or key     *)
(* comparison ran, and the value returned.                                 *)
(***************************************************************************)
Conns == {"c1", "c2"}

IPs == {a.ip : a \in Addrs}

ClosedConn ==
    [pc |-> "closed", addr |-> None, name |-> <<>>,
     ctxUser |-> None, ctxArg |-> None, ctxRoute |-> None,
     cred |-> None, gate |-> "none", looked |-> FALSE, compared |-> FALSE,
     ret |-> "none", served |-> None, stderr |-> None]

\* The step is op on connection c; pd is the flag of a failed handshake.
Step(op, c, pd) ==
    /\ last' = [op |-> op, c |-> c, pd |-> pd]
    /\ UNCHANGED <<f2b, env, matchVars, permVars, routerVars, backVars>>

\* The listener accepts a connection; its context carries the SSH username.
Accept(c) ==
    /\ c \in env.slots
    /\ conn[c].pc = "closed"
    /\ \E a \in env.addrs, n \in env.labels :
          /\ \A d \in Conns \ {c} : conn[d].addr # Some(a)
          /\ conn' = [conn EXCEPT ![c] =
                         [ClosedConn EXCEPT !.pc = "auth", !.addr = Some(a), !.name = n]]
    /\ Step("accept", c, FALSE)
    /\ UNCHANGED <<attempts, hist>>

\* loginGate resolving the user before it asks the limiter.
loginGate_lookupFirst(c, kind, cred) ==
    /\ conn[c].pc = "auth"
    /\ LET g == getUser(conn[c].ctxUser, conn[c].ctxArg, conn[c].name) IN
       IF LoginAllowed(f2b, attempts, conn[c].addr[1])
       THEN conn' = [conn EXCEPT ![c].pc = kind, ![c].cred = Some(cred),
                                 ![c].gate = "passed", ![c].looked = FALSE,
                                 ![c].compared = FALSE, ![c].ret = "none"]
       ELSE conn' = [conn EXCEPT ![c].ctxUser = g.ctxUser, ![c].ctxArg = g.ctxArg,
                                 ![c].gate = "blocked", ![c].looked = TRUE,
                                 ![c].compared = FALSE, ![c].ret = "false"]
    /\ Step(kind, c, FALSE)
    /\ UNCHANGED <<attempts, hist>>

\* The entry of a login callback: the LoginAllowed check and, when it
\* fails, the return of false.  kind is "password" or "pubkey".
loginGate(c, kind, cred) ==
    /\ conn[c].pc = "auth"
    /\ IF LoginAllowed(f2b, attempts, conn[c].addr[1])
       THEN conn' = [conn EXCEPT ![c].pc = kind, ![c].cred = Some(cred),
                                 ![c].gate = "passed", ![c].looked = FALSE,
                                 ![c].compared = FALSE, ![c].ret = "none"]
       ELSE conn' = [conn EXCEPT ![c].gate = "blocked", ![c].looked = FALSE,
                                 ![c].compared = FALSE, ![c].ret = "false"]
    /\ Step(kind, c, FALSE)
    /\ UNCHANGED <<attempts, hist>>

\* passwordHandler's comparison of the password with the user's hash.
passwordOk(user, password) ==
    LET r == ComparePasswordAndHash(password, user.Password) IN
    ~r.err /\ r.match

\* pubkeyHandler's loop over the user's authorized keys.
pubkeyOk(user, key) ==
    \E i \in 1..Len(user.Pubkeys) :
        LET p == ParseAuthorizedKey(user.Pubkeys[i]) IN
        ~p.err /\ KeysEqual(key, p.key)

\* The rest of a login callback: getUser, then the handler's verification
\* of the credential for the resolved user when there is one.  done names
\* the step in last.
loginCheck(c, kind, done) ==
    /\ conn[c].pc = kind
    /\ LET g  == getUser(conn[c].ctxUser, conn[c].ctxArg, conn[c].name)
           ok == g.ok /\ IF kind = "password"
                         THEN passwordOk(g.user[1], conn[c].cred[1])
                         ELSE pubkeyOk(g.user[1], conn[c].cred[1])
       IN conn' = [conn EXCEPT ![c].ctxUser = g.ctxUser, ![c].ctxArg = g.ctxArg,
                               ![c].looked = TRUE, ![c].compared = g.ok,
                               ![c].cred = None,
                               ![c].ret = IF ok THEN "true" ELSE "false",
                               ![c].pc = IF ok THEN "authed" ELSE "auth"]
    /\ Step(done, c, FALSE)
    /\ UNCHANGED <<attempts, hist>>

PasswordGate(c) == \E password \in Passwords : loginGate(c, "password", password)

PasswordCheck(c) == loginCheck(c, "password", "password_done")

PubkeyGate(c) == \E key \in Keys : loginGate(c, "pubkey", key)

PubkeyCheck(c) == loginCheck(c, "pubkey", "pubkey_done")

\* failedConnHandler counting every failed handshake, whatever the error.
failedConnHandler_anyError(f, att, addr, pd) == AddFailedLogin(f, att, addr)

\* failedConnHandler: the attempts map after the callback; pd says whether
\* the error message contains `permission denied`.
failedConnHandler(f, att, addr, pd) ==
    IF pd THEN AddFailedLogin(f, att, addr) ELSE att

\* The handshake of c failed and the server calls failedConnHandler.
ConnFailed(c) ==
    /\ conn[c].pc = "auth"
    /\ \E pd \in BOOLEAN :
          LET ip == conn[c].addr[1].ip IN
          /\ pd => hist.failed[ip] < MaxCount
          /\ attempts' = failedConnHandler(f2b, attempts, conn[c].addr[1], pd)
          /\ hist' = IF pd THEN [hist EXCEPT !.failed[ip] = @ + 1] ELSE hist
          /\ Step("failed", c, pd)
    /\ conn' = [conn EXCEPT ![c] = ClosedConn]

\* Fail2Ban.clear: one tick of the reset goroutine.
Clear ==
    /\ ~f2b.isNil
    /\ attempts' = [x \in {} |-> 0]
    /\ hist' = [failed |-> [ip \in IPs |-> 0], resets |-> TRUE]
    /\ Step("clear", "", FALSE)
    /\ UNCHANGED conn

\* Router.Handler for the session of an authenticated connection.  The
\* routes are a Go map, so the range loop may stop at any matching route.
Dispatch(c) ==
    /\ conn[c].pc = "authed"
    /\ LET arg      == IF conn[c].ctxArg = None THEN <<>> ELSE conn[c].ctxArg[1]
           matching == matchingRoutes(routes, arg)
       IN \E k \in (IF matching = {} THEN {None} ELSE matching),
             err \in (IF matching = {} THEN {None} ELSE HandlerErrors) :
             LET out == RouterHandler(routes, middlewares, conn[c].ctxArg,
                                      conn[c].ctxRoute, k, err)
             IN conn' = [conn EXCEPT ![c].pc = "served",
                                     ![c].ctxRoute = out.ctxRoute,
                                     ![c].served = out.calls,
                                     ![c].stderr = out.stderr]
    /\ Step("dispatch", c, FALSE)
    /\ UNCHANGED <<attempts, hist>>

\* The connection ends.
Close(c) ==
    /\ conn[c].pc = "served"
    /\ conn' = [conn EXCEPT ![c] = ClosedConn]
    /\ Step("close", c, FALSE)
    /\ UNCHANGED <<attempts, hist>>

(***************************************************************************)
(* Specifications.                                                         *)
(***************************************************************************)
MatchIdle == mIn = None /\ mOut = None
PermIdle  == pIn = None /\ pOut = None
RouterIdle == rt = None
BackIdle  == bk = None
AuthIdle  ==
    /\ f2b = [isNil |-> TRUE, amount |-> 0]
    /\ attempts = [x \in {} |-> 0]
    /\ env = [slots |-> {}, labels |-> {}, addrs |-> {}]
    /\ conn = [c \in Conns |-> ClosedConn]
    /\ hist = [failed |-> [ip \in IPs |-> 0], resets |-> FALSE]
    /\ last = [op |-> "init", c |-> "", pd |-> FALSE]

\* The server after main has built it from one of the configurations, and
\* its clients: their connection slots, SSH usernames and addresses.
AuthInit(configs, slots, labels, addrs) ==
    /\ f2b \in configs
    /\ attempts = [x \in {} |-> 0]
    /\ env = [slots |-> slots, labels |-> labels, addrs |-> addrs]
    /\ conn = [c \in Conns |-> ClosedConn]
    /\ hist = [failed |-> [ip \in IPs |-> 0], resets |-> FALSE]
    /\ last = [op |-> "init", c |-> "", pd |-> FALSE]

\* SSH usernames of the clients of Spec.
SpecLabels == { <<"a", ":", "x">>, <<"z">> }

Init ==
    /\ AuthInit(F2bConfigs, Conns, SpecLabels, Addrs)
    /\ MatchIdle /\ PermIdle /\ RouterIdle /\ BackIdle

Next ==
    \/ \E c \in Conns : Accept(c)
    \/ \E c \in Conns : PasswordGate(c)
    \/ \E c \in Conns : PasswordCheck(c)
    \/ \E c \in Conns : PubkeyGate(c)
    \/ \E c \in Conns : PubkeyCheck(c)
    \/ \E c \in Conns : ConnFailed(c)
    \/ \E c \in Conns : Dispatch(c)
    \/ \E c \in Conns : Close(c)
    \/ Clear

Spec == Init /\ [][Next]_vars

\* One client presenting every SSH username up to MaxLabelLen characters, to
\* a server without limiter and to one with a limiter.
LabelChars == {"a", "b", ":", "~"}

AllLabels == SeqsUpTo(LabelChars, MaxLabelLen)

InitLabel ==
    /\ AuthInit({[isNil |-> TRUE, amount |-> 0], [isNil |-> FALSE, amount |-> MaxAmount]},
                {"c1"}, AllLabels, {[kind |-> "tcp", ip |-> <<"1">>, port |-> <<"7">>]})
    /\ MatchIdle /\ PermIdle /\ RouterIdle /\ BackIdle

SpecLabel == InitLabel /\ [][Next]_vars

\* matchPattern on every pattern and item up to MaxPatLen characters.
MatchChars == {"a", "b", "*"}

MatchStrings == SeqsUpTo(MatchChars, MaxPatLen)

InitMatch ==
    /\ mIn \in [pattern : MatchStrings, item : MatchStrings]
    /\ mOut = None
    /\ PermIdle /\ AuthIdle /\ RouterIdle /\ BackIdle

MatchCall ==
    /\ mOut = None
    /\ mOut' = Some(matchPattern(mIn.pattern, mIn.item))
    /\ UNCHANGED <<mIn, permVars, authVars, routerVars, backVars>>

NextMatch == MatchCall

SpecMatch == InitMatch /\ [][NextMatch]_vars

\* IsAllowed on every permission map, user and item list built from the
\* names below.
PermGroupNames == {"g1", "g2", "all"}

UserGroupNames == {"g1", "g2"}

PermItems == { <<"a", "b">>, <<"b">> }

\* The pattern lists of a permission entry.
PermLists == { << <<"a", "*">> >>, << <<"b">>, <<"a", "*">> >> }

\* map[string][]string with the keys allow and deny, each present or not.
PermEntries == MapsOver({"allow", "deny"}, PermLists)

PermMaps ==
    { [isNil |-> TRUE, m |-> [x \in {} |-> 0]] } \cup
    { [isNil |-> FALSE, m |-> m] : m \in MapsOver(PermGroupNames, PermEntries) }

PermUsers ==
    { [Name |-> <<"a">>, Password |-> <<>>, Groups |-> gs, Pubkeys |-> <<>>] :
        gs \in SeqsUpTo(UserGroupNames, MaxUserGroups) }

InitPerm ==
    /\ pIn \in [pm : PermMaps, u : PermUsers, items : SeqsUpTo(PermItems, MaxItems)]
    /\ pOut = None
    /\ MatchIdle /\ AuthIdle /\ RouterIdle /\ BackIdle

PermCall ==
    /\ pOut = None
    /\ pOut' = Some(IsAllowed(pIn.pm, pIn.u, pIn.items))
    /\ UNCHANGED <<pIn, matchVars, authVars, routerVars, backVars>>

NextPerm == PermCall

SpecPerm == InitPerm /\ [][NextPerm]_vars

\* A Router used through its API: Use and Handle calls in any order, then
\* Router.Handler for one session after the other, each on the fresh context
\* of a new connection.
Middlewares == {"logging", "mw"}

\* Names of the routes, in the order of the Handle calls.
RouteNames == <<"r1", "r2", "r3", "r4">>

\* The patterns x, (y)(?P<arg>.+), x(.+), ^(x)(y) and the ill-formed (x .
RoutePatterns ==
    { << [grp |-> "none", body |-> <<"x">>] >>,
      << [grp |-> "plain", body |-> <<"y">>], [grp |-> "arg", body |-> <<".+">>] >>,
      << [grp |-> "none", body |-> <<"x">>], [grp |-> "plain", body |-> <<".+">>] >>,
      << [grp |-> "none", body |-> <<"^">>], [grp |-> "plain", body |-> <<"x">>],
         [grp |-> "plain", body |-> <<"y">>] >>,
      << [grp |-> "open", body |-> <<"x">>] >> }

ArgChars == {"x", "y"}

\* The argument in the context of a session: unset, or a string; one of
\* them holds a double quote.
RouterArgs ==
    {None, Some(<< "\"" >>)} \cup {Some(s) : s \in SeqsUpTo(ArgChars, MaxArgLen)}

InitRouter ==
    /\ rt = [phase |-> "setup", routes |-> [x \in {} |-> 0], middlewares |-> <<>>,
             handled |-> <<>>, session |-> None]
    /\ bk = None
    /\ MatchIdle /\ PermIdle /\ AuthIdle

RouterUse ==
    /\ rt.phase = "setup"
    /\ Len(rt.middlewares) < MaxMiddlewares
    /\ \E m \in Middlewares : rt' = [rt EXCEPT !.middlewares = Use(@, m)]
    /\ UNCHANGED <<matchVars, permVars, authVars, backVars>>

\* One Handle call; the caller goes on whatever Handle returns, as main does.
RouterHandle ==
    /\ rt.phase = "setup"
    /\ Len(rt.handled) < MaxRoutes
    /\ \E pattern \in RoutePatterns :
          LET name == RouteNames[Len(rt.handled) + 1]
              h    == Handle(rt.routes, name, pattern)
          IN rt' = [rt EXCEPT !.routes = h.routes,
                              !.handled = Append(@, [name |-> name, pattern |-> pattern,
                                                     err |-> h.err, before |-> rt.routes,
                                                     after |-> h.routes])]
    /\ UNCHANGED <<matchVars, permVars, authVars, backVars>>

\* srv.ListenAndServe: the registrations are over.
RouterServe ==
    /\ rt.phase = "setup"
    /\ rt' = [rt EXCEPT !.phase = "serving"]
    /\ UNCHANGED <<matchVars, permVars, authVars, backVars>>

\* Router.Handler for the session of a new connection.
RouterSession ==
    /\ rt.phase = "serving"
    /\ rt.session = None
    /\ \E ctxArg \in RouterArgs :
          LET arg      == IF ctxArg = None THEN <<>> ELSE ctxArg[1]
              matching == matchingRoutes(rt.routes, arg)
          IN \E k \in (IF matching = {} THEN {None} ELSE matching),
                err \in (IF matching = {} THEN {None} ELSE HandlerErrors) :
                rt' = [rt EXCEPT !.session =
                          Some([ctxArg |-> ctxArg, arg |-> arg, k |-> k, err |-> err,
                                out |-> RouterHandler(rt.routes, rt.middlewares,
                                                      ctxArg, None, k, err)])]
    /\ UNCHANGED <<matchVars, permVars, authVars, backVars>>

\* The session is over and its connection closed.
RouterSessionEnd ==
    /\ rt.session # None
    /\ rt' = [rt EXCEPT !.session = None]
    /\ UNCHANGED <<matchVars, permVars, authVars, backVars>>

NextRouter ==
    RouterUse \/ RouterHandle \/ RouterServe \/ RouterSession \/ RouterSessionEnd

SpecRouter == InitRouter /\ [][NextRouter]_vars

\* One call of a backend handler for the session of a user, on the inputs
\* below.
BackUsers ==
    { [Name |-> <<"a">>, Password |-> <<>>, Groups |-> gs, Pubkeys |-> <<>>] :
        gs \in { <<>>, <<"g1">> } }

\* route.Permissions: nil, empty, everything allowed to every user,
\* everything allowed to group g1, g1 with task u, container d and port
\* s denied, and g1 with job v and task group g denied.
BackPerms ==
    { [isNil |-> TRUE, m |-> [x \in {} |-> 0]],
      [isNil |-> FALSE, m |-> [x \in {} |-> 0]],
      [isNil |-> FALSE, m |-> [x \in {"all"} |-> [k \in {"allow"} |-> << <<"*">> >>]]],
      [isNil |-> FALSE, m |-> [x \in {"g1"} |-> [k \in {"allow"} |-> << <<"*">> >>]]],
      [isNil |-> FALSE,
       m |-> [x \in {"g1"} |->
                [k \in {"allow", "deny"} |->
                    IF k = "allow" THEN << <<"*">> >>
                    ELSE << <<"task:", "u">>, <<"d">>, <<"s">> >>]]],
      [isNil |-> FALSE,
       m |-> [x \in {"g1"} |->
                [k \in {"allow", "deny"} |->
                    IF k = "allow" THEN << <<"*">> >>
                    ELSE << <<"job:", "v">>, <<"group:", "g">> >>]]] }

\* Proxy settings: undecodable, host h, hosts c*:2222 and ?, no host at
\* all, a pattern with a bad port, and an unreadable private key.
ProxySettings ==
    { [err |-> TRUE, host |-> None, hosts |-> <<>>, privkey |-> "none"],
      [err |-> FALSE, host |-> Some(<<"h">>), hosts |-> <<>>, privkey |-> "none"],
      [err |-> FALSE, host |-> None, privkey |-> "ok",
       hosts |-> << <<"c", "*", ":", "2", "2", "2", "2">>, <<"?">> >>],
      [err |-> FALSE, host |-> None, hosts |-> <<>>, privkey |-> "none"],
      [err |-> FALSE, host |-> None, hosts |-> << <<"d", ":", "x">> >>, privkey |-> "none"],
      [err |-> FALSE, host |-> None, hosts |-> << <<"*">> >>, privkey |-> "unreadable"] }

NomadSettings ==
    { [err |-> TRUE, delimiter |-> "."], [err |-> FALSE, delimiter |-> "."] }

\* Arguments of scheduler sessions: job, job.task, job.group.task and
\* job.allocRef.group.task in their variants, and five tokens.
NomadArgs ==
    { <<"w">>, <<"q">>, <<"w", ".", "t">>, <<"w", ".", "u">>, <<"w", ".", "q">>,
      <<"w", ".", "g", ".", "u">>, <<"w", ".", "g", ".">>, <<"w", ".", "q", ".", "t">>,
      <<"w", ".", "0", ".", "g", ".", "t">>, <<"w", ".", "i", ".", ".">>,
      <<"w", ".", "z", ".", "g", ".", "u">>, <<"w", ".", "1", ".", "q", ".", "t">>,
      <<"w", ".", "0", ".", "g", ".", "t", ".", "t">>,
      <<"v">>, <<"w", ".", "h", ".", "s">>, <<"w", ".", "j", ".", "k", ".", "t">>,
      <<"w", ".", "-", "1", ".", "g", ".", "t">> }

SerialSettings ==
    { [err |-> TRUE, directory |-> None, file |-> None, delimiter |-> ".",
       baud_rate |-> None, config |-> None] }
    \cup
    [err : {FALSE}, directory : {None, Some(<<"/", "d">>)},
     file : {None, Some(<<"/", "e", "/", "s">>)}, delimiter : {".", ","},
     baud_rate : {None, Some(3)},
     config : {None, Some(<<"8", "n", "1">>), Some(<<>>)}]

\* Arguments of serial sessions: name, baud rate and mode in their variants.
SerialArgs ==
    { <<>>, <<"s">>, <<"r">>, <<"9">>, <<"s", ".", "9">>, <<"s", ".", "x">>,
      <<"s", ".", "9", ".", "7", "E", "2">>, <<"s", ".", ".", "7", "e", "2">>,
      <<"9", ".", "7", "e", "2">>, <<".", "7", "e", "2">>,
      <<"s", ".", "9", ".", "8">>, <<"9", ".", "8", "x", "1">>,
      <<"s", ".", ".", "8">>,
      <<"s", ",", "9">>, <<".", ".", "/", "s">> }

BackInputs ==
    [backend : {"proxy"}, perms : BackPerms, user : BackUsers, pty : BOOLEAN,
     arg : { <<"c">>, <<"d">> }, settings : ProxySettings, world : {"ok", "dialErr"}]
    \cup
    [backend : {"docker"}, perms : BackPerms, user : BackUsers, pty : BOOLEAN,
     arg : { <<"c">>, <<"d">> }, settings : { [err |-> TRUE], [err |-> FALSE] },
     world : {"ok", "clientErr", "createErr"}]
    \cup
    [backend : {"nomad"}, perms : BackPerms, user : BackUsers, pty : BOOLEAN,
     arg : NomadArgs, settings : NomadSettings,
     world : {"ok", "clientErr", "allocErr", "noAllocs", "infoErr", "execErr"}]
    \cup
    [backend : {"serial"}, perms : BackPerms, user : BackUsers, pty : BOOLEAN,
     arg : SerialArgs, settings : SerialSettings, world : {"ok", "openErr"}]

InitBackend ==
    /\ bk \in [in : BackInputs, out : {None}]
    /\ rt = None
    /\ MatchIdle /\ PermIdle /\ AuthIdle

BackendRun ==
    /\ bk.out = None
    /\ bk' = [bk EXCEPT !.out = Some(BackendCall(bk.in))]
    /\ UNCHANGED <<matchVars, permVars, authVars, routerVars>>

NextBackend == BackendRun

SpecBackend == InitBackend /\ [][NextBackend]_vars

\* One call of parseSerialMode on every string of mode characters.
ModeChars == {"7", "n", "E", "x", "1", ".", "5", "2"}

ModeStrings == SeqsUpTo(ModeChars, MaxModeLen)

InitMode ==
    /\ bk \in [in : ModeStrings, out : {None}]
    /\ rt = None
    /\ MatchIdle /\ PermIdle /\ AuthIdle

ModeCall ==
    /\ bk.out = None
    /\ bk' = [bk EXCEPT !.out = Some(parseSerialMode(bk.in))]
    /\ UNCHANGED <<matchVars, permVars, authVars, routerVars>>

NextMode == ModeCall

SpecMode == InitMode /\ [][NextMode]_vars

(***************************************************************************)
(* main.  The process from its start to its exit: pc is the statement main *)
(* is at, world says which of the calls main makes fail, failed is the     *)
(* start-up error main met (none when it met none) and exit the process's  *)
(* exit code, -1 while it runs.                                            *)
(***************************************************************************)
MainWorlds ==
    [genHash : BOOLEAN, terminal : {"ok", "err"}, hash : {"ok", "err"},
     config : {"ok", "err"}, limit : {"none", "ok", "err"},
     sshDir : {"set", "empty"}, homeDir : {"ok", "err"}, hostKeys : {"ok", "err"},
     listen : {"bind", "serve"}]

InitMain ==
    /\ bk \in [pc : {"flags"}, world : MainWorlds, failed : {"none"}, exit : {0 - 1}]
    /\ rt = None
    /\ MatchIdle /\ PermIdle /\ AuthIdle

MainStep(next) ==
    /\ bk' = next
    /\ UNCHANGED <<matchVars, permVars, authVars, routerVars>>

\* os.Exit(1) after the error was logged.
ExitOne(what) == [bk EXCEPT !.pc = "exited", !.failed = what, !.exit = 1]

\* flag.Parse and the test of -gen-hash.
ParseFlags ==
    /\ bk.pc = "flags"
    /\ MainStep([bk EXCEPT !.pc = IF bk.world.genHash THEN "genHash" ELSE "config"])

\* -gen-hash: read the password, print its hash and return.
GenHash ==
    /\ bk.pc = "genHash"
    /\ MainStep(IF bk.world.terminal = "err" THEN ExitOne("terminal")
                ELSE IF bk.world.hash = "err" THEN ExitOne("hash")
                ELSE [bk EXCEPT !.pc = "exited", !.exit = 0])

\* config.Load.
LoadConfig ==
    /\ bk.pc = "config"
    /\ MainStep(IF bk.world.config = "err" THEN ExitOne("config")
                ELSE [bk EXCEPT !.pc = "router"])

\* The router, its routes and the rate limiter: an unknown backend and an
\* unparsable limit are logged and main goes on.
BuildServer ==
    /\ bk.pc = "router"
    /\ MainStep([bk EXCEPT !.pc = "sshDir"])

\* The default of settings.SSHDir.
ResolveSSHDir ==
    /\ bk.pc = "sshDir"
    /\ MainStep(IF bk.world.sshDir = "empty" /\ bk.world.homeDir = "err"
                THEN ExitOne("homeDir")
                ELSE [bk EXCEPT !.pc = "hostKeys"])

\* ensureHostKeys.
EnsureHostKeys ==
    /\ bk.pc = "hostKeys"
    /\ MainStep(IF bk.world.hostKeys = "err" THEN ExitOne("hostKeys")
                ELSE [bk EXCEPT !.pc = "serving"])

\* srv.ListenAndServe returns: the listener could not bind, or serving
\* failed.  main logs the error and returns.
ListenAndServeFails ==
    /\ bk.pc = "serving"
    /\ MainStep([bk EXCEPT !.pc = "exited", !.failed = bk.world.listen, !.exit = 0])

NextMain ==
    \/ ParseFlags \/ GenHash \/ LoadConfig \/ BuildServer
    \/ ResolveSSHDir \/ EnsureHostKeys \/ ListenAndServeFails

SpecMain == InitMain /\ [][NextMain]_vars

(***************************************************************************)
(* internal/fail2ban under concurrency.  Login callbacks run on their own  *)
(* goroutines and call AddFailedLogin and LoginAllowed while the reset     *)
(* goroutine ticks; every statement between Lock and Unlock is a step of   *)
(* its own.  held is the set of goroutines past f.mtx.Lock(), tmp the      *)
(* value a goroutine loaded for its increment, done the number of          *)
(* AddFailedLogin calls per IP that returned since the last reset, read    *)
(* the last LoginAllowed read, reset whether a reset was made and waited   *)
(* whether an Unlock released a goroutine that was blocked in Lock.        *)
(***************************************************************************)
MaxCalls == 2   \* most calls one login goroutine makes

Callers    == {"c1", "c2"}
Goroutines == Callers \cup {"clear"}
NoAddr     == [kind |-> "none", ip |-> <<>>, port |-> <<>>]

\* sync.Mutex: Lock returns only when no goroutine holds the mutex.
\* A mutex that never blocks.
mtxFree_always(held) == TRUE

mtxFree(held) == held = {}

InitLock ==
    /\ bk \in [f : F2bConfigs,
               held : {{}},
               pc : {[g \in Goroutines |-> "idle"]},
               addr : {[g \in Callers |-> NoAddr]},
               tmp : {[g \in Callers |-> 0]},
               att : {[x \in {} |-> 0]},
               done : {[ip \in IPs |-> 0]},
               calls : {[g \in Callers |-> 0]},
               reset : {FALSE},
               read : {None},
               waited : {FALSE}]
    /\ rt = None
    /\ MatchIdle /\ PermIdle /\ AuthIdle

LockStep(next) ==
    /\ bk' = next
    /\ UNCHANGED <<matchVars, permVars, authVars, routerVars>>

\* A login callback calls AddFailedLogin(addr): a nil receiver returns at
\* once, any other goes on to f.mtx.Lock().
CallAddFailedLogin(g, addr) ==
    /\ bk.pc[g] = "idle" /\ bk.calls[g] < MaxCalls
    /\ LockStep([bk EXCEPT !.calls[g] = @ + 1,
                           !.addr[g] = IF bk.f.isNil THEN NoAddr ELSE addr,
                           !.pc[g] = IF bk.f.isNil THEN "idle" ELSE "addLock"])

\* A login callback calls LoginAllowed(addr): true for a nil receiver.
CallLoginAllowed(g, addr) ==
    /\ bk.pc[g] = "idle" /\ bk.calls[g] < MaxCalls
    /\ LockStep([bk EXCEPT !.calls[g] = @ + 1,
                           !.addr[g] = IF bk.f.isNil THEN NoAddr ELSE addr,
                           !.pc[g] = IF bk.f.isNil THEN "idle" ELSE "readLock"])

\* f.mtx.Lock() returns in goroutine g.
MtxLock(g) ==
    /\ bk.pc[g] \in {"addLock", "readLock", "clearLock"}
    /\ mtxFree(bk.held)
    /\ LockStep([bk EXCEPT !.held = @ \cup {g},
                           !.pc[g] = CASE bk.pc[g] = "addLock" -> "addLoad"
                                       [] bk.pc[g] = "readLock" -> "read"
                                       [] OTHER -> "clearDelete"])

\* f.attempts[key]++ : the load of the counter ...
AddLoad(g) ==
    /\ g \in Callers /\ bk.pc[g] = "addLoad"
    /\ LockStep([bk EXCEPT !.tmp[g] = MapGet(bk.att, getAddrString(bk.addr[g])),
                           !.pc[g] = "addStore"])

\* ... and the store of the loaded value plus one.
AddStore(g) ==
    /\ g \in Callers /\ bk.pc[g] = "addStore"
    /\ LockStep([bk EXCEPT !.att = MapPut(@, getAddrString(bk.addr[g]), bk.tmp[g] + 1),
                           !.pc[g] = "addUnlock"])

\* return f.attempts[key] < f.amount : the read of the counter.
AllowedRead(g) ==
    /\ g \in Callers /\ bk.pc[g] = "read"
    /\ LockStep([bk EXCEPT
           !.read = Some([seen    |-> MapGet(bk.att, getAddrString(bk.addr[g])),
                          allowed |-> LoginAllowed(bk.f, bk.att, bk.addr[g]),
                          done    |-> bk.done[getAddrString(bk.addr[g])],
                          partial |-> bk.pc["clear"] \in {"clearDelete", "clearAssign"}
                                      /\ \E ip \in IPs :
                                            MapGet(bk.att, ip) # bk.done[ip]]),
           !.pc[g] = "readUnlock"])

\* The deferred f.mtx.Unlock() of a login goroutine: the call returns.
MtxUnlock(g) ==
    /\ g \in Callers /\ bk.pc[g] \in {"addUnlock", "readUnlock"}
    /\ LockStep([bk EXCEPT
           !.held = @ \ {g},
           !.done = IF bk.pc[g] = "addUnlock"
                    THEN [@ EXCEPT ![getAddrString(bk.addr[g])] = @ + 1] ELSE @,
           !.waited = @ \/ \E h \in Goroutines \ {g} :
                              bk.pc[h] \in {"addLock", "readLock", "clearLock"},
           !.addr[g] = NoAddr, !.tmp[g] = 0,
           !.pc[g] = "idle"])

\* time.Tick fires: the reset goroutine goes to f.mtx.Lock().
Tick ==
    /\ ~bk.f.isNil
    /\ bk.pc["clear"] = "idle"
    /\ LockStep([bk EXCEPT !.pc["clear"] = "clearLock"])

\* clear(f.attempts) removes the keys one after the other.
ClearDelete ==
    /\ bk.pc["clear"] = "clearDelete"
    /\ IF DOMAIN bk.att = {}
       THEN LockStep([bk EXCEPT !.pc["clear"] = "clearAssign"])
       ELSE \E k \in DOMAIN bk.att :
               LockStep([bk EXCEPT !.att = [x \in DOMAIN bk.att \ {k} |-> bk.att[x]]])

\* f.attempts = map[string]int{} : the reset is made.
ClearAssign ==
    /\ bk.pc["clear"] = "clearAssign"
    /\ LockStep([bk EXCEPT !.att = [x \in {} |-> 0],
                           !.done = [ip \in IPs |-> 0],
                           !.reset = TRUE,
                           !.pc["clear"] = "clearUnlock"])

\* f.mtx.Unlock() of the reset goroutine.
ClearUnlock ==
    /\ bk.pc["clear"] = "clearUnlock"
    /\ LockStep([bk EXCEPT !.held = @ \ {"clear"},
                           !.waited = @ \/ \E h \in Callers :
                                              bk.pc[h] \in {"addLock", "readLock"},
                           !.pc["clear"] = "idle"])

NextLock ==
    \/ \E g \in Callers, addr \in Addrs : CallAddFailedLogin(g, addr)
    \/ \E g \in Callers, addr \in Addrs : CallLoginAllowed(g, addr)
    \/ \E g \in Goroutines : MtxLock(g)
    \/ \E g \in Callers : AddLoad(g)
    \/ \E g \in Callers : AddStore(g)
    \/ \E g \in Callers : AllowedRead(g)
    \/ \E g \in Callers : MtxUnlock(g)
    \/ Tick
    \/ ClearDelete
    \/ ClearAssign
    \/ ClearUnlock

SpecLock == InitLock /\ [][NextLock]_vars

(***************************************************************************)
(* requestPassword and readPassword: the prompt for the upstream password. *)
(* orig is what the client sends on the session, input what is still       *)
(* unread, out the password buffer, screen the writes made to the session  *)
(* ("*", the erase sequence "\b \b", "\n"), stderr whether the prompt text *)
(* was written, closed whether sess.Close() was called and ret what the    *)
(* callback returned to the upstream authentication.                       *)
(***************************************************************************)
MaxTyped == 5   \* most bytes the client sends at the prompt

DEL == "7F"     \* 0x7F
ETX == "03"     \* 0x03, Ctrl+C
EOT == "04"     \* 0x04, Ctrl+D
Erase == "\\b \\b"

PromptBytes == {"a", " ", DEL, "\r", "\n", ETX, EOT}

ErrCanceled == <<"password entry canceled">>
ErrRead     == <<"EOF">>
ErrWrite    == <<"write">>

\* unicode.IsSpace for the bytes of the model.
IsSpace(c) == c \in {" ", "\t", "\n", "\r"}

\* strings.TrimSpace
RECURSIVE TrimLeft(_)
TrimLeft(s) == IF s # <<>> /\ IsSpace(s[1]) THEN TrimLeft(Tail(s)) ELSE s

RECURSIVE TrimRight(_)
TrimRight(s) ==
    IF s # <<>> /\ IsSpace(s[Len(s)]) THEN TrimRight(SubSeq(s, 1, Len(s) - 1)) ELSE s

\* TrimSpace trimming the front only.
TrimSpace_leftOnly(s) == TrimLeft(s)

TrimSpace(s) == TrimRight(TrimLeft(s))

\* One pass of readPassword's loop over the byte b it has read: the buffer,
\* the writes to the session and, when the loop ends, what it returns.
ReadOn(st, out, screen) ==
    [st EXCEPT !.out = out, !.screen = screen]
ReadDone(st, pwd, err, closed) ==
    [st EXCEPT !.done = TRUE, !.pwd = pwd, !.err = err, !.closed = closed]

\* The backspace case without the test of the buffer's length.
readByte_eraseEmpty(st, b) ==
    CASE b \in {"\r", "\n"} -> ReadDone(st, st.out, None, st.closed)
      [] b = DEL -> ReadOn(st, SubSeq(st.out, 1, Len(st.out) - 1),
                           Append(st.screen, Erase))
      [] b \in {ETX, EOT} -> ReadDone(st, <<>>, Some(ErrCanceled), TRUE)
      [] OTHER -> ReadOn(st, Append(st.out, b), Append(st.screen, "*"))

\* The cancel case returning what was typed.
readByte_cancelKeeps(st, b) ==
    CASE b \in {"\r", "\n"} -> ReadDone(st, st.out, None, st.closed)
      [] b = DEL -> IF Len(st.out) # 0
                    THEN ReadOn(st, SubSeq(st.out, 1, Len(st.out) - 1),
                                Append(st.screen, Erase))
                    ELSE st
      [] b \in {ETX, EOT} -> ReadDone(st, st.out, Some(ErrCanceled), TRUE)
      [] OTHER -> ReadOn(st, Append(st.out, b), Append(st.screen, "*"))

readByte(st, b) ==
    CASE b \in {"\r", "\n"} -> ReadDone(st, st.out, None, st.closed)
      [] b = DEL -> IF Len(st.out) # 0
                    THEN ReadOn(st, SubSeq(st.out, 1, Len(st.out) - 1),
                                Append(st.screen, Erase))
                    ELSE st
      [] b \in {ETX, EOT} -> ReadDone(st, <<>>, Some(ErrCanceled), TRUE)
      [] OTHER -> ReadOn(st, Append(st.out, b), Append(st.screen, "*"))

InitPassword ==
    /\ \E typed \in SeqsUpTo(PromptBytes, MaxTyped) :
          bk = [pc |-> "prompt", orig |-> typed, input |-> typed,
                stderr |-> FALSE,
                out |-> <<>>, screen |-> <<>>, closed |-> FALSE,
                done |-> FALSE, pwd |-> <<>>, err |-> None, last |-> None,
                ret |-> None]
    /\ rt = None
    /\ MatchIdle /\ PermIdle /\ AuthIdle

PasswordStep(next) ==
    /\ bk' = next
    /\ UNCHANGED <<matchVars, permVars, authVars, routerVars>>

\* fmt.Fprintf(sess.Stderr(), "Password for %s@%s: ", ...)
WritePrompt ==
    /\ bk.pc = "prompt"
    /\ PasswordStep([bk EXCEPT !.pc = "reading", !.stderr = TRUE])

\* The write of the prompt fails: the callback returns the error.
WritePromptFails ==
    /\ bk.pc = "prompt"
    /\ PasswordStep([bk EXCEPT !.pc = "returned",
                               !.ret = Some([secret |-> <<>>, err |-> Some(ErrWrite)])])

\* sess.Read(buf) delivers the next byte and the loop handles it.
ReadByte ==
    /\ bk.pc = "reading" /\ bk.input # <<>>
    /\ LET st == readByte(bk, Head(bk.input))
       IN PasswordStep([st EXCEPT !.input = Tail(bk.input),
                                  !.last = Some(Head(bk.input)),
                                  !.pc = IF st.done THEN "read" ELSE "reading"])

\* sess.Read(buf) fails: the client is gone before it sent a further byte.
ReadFails ==
    /\ bk.pc = "reading" /\ bk.input = <<>>
    /\ PasswordStep([ReadDone(bk, <<>>, Some(ErrRead), bk.closed) EXCEPT
                         !.last = None, !.pc = "read"])

\* readPassword has returned: the newline and the trimmed password.
requestPassword ==
    /\ bk.pc = "read"
    /\ PasswordStep([bk EXCEPT
           !.screen = IF bk.closed THEN @ ELSE Append(@, "\n"),
           !.ret = Some([secret |-> TrimSpace(bk.pwd), err |-> bk.err]),
           !.pc = "returned"])

NextPassword == WritePrompt \/ WritePromptFails \/ ReadByte \/ ReadFails \/ requestPassword

SpecPassword == InitPassword /\ [][NextPassword]_vars

(***************************************************************************)
(* A handler that has opened its backend and pipes the session.  The       *)
(* client and the backend act on their own; the handler, the goroutines it *)
(* started and the resize task are the program.                            *)
(*   client    open, or closed: the session ended, its context is          *)
(*             cancelled, its input is at end of stream and the library    *)
(*             closed the resize channel                                   *)
(*   input     the client-to-backend stream: open or eof                   *)
(*   output    the backend-to-client stream: open, data (bytes wait to be  *)
(*             read) or eof (the exec, the remote command or the port      *)
(*             ended)                                                      *)
(*   toClient, toBackend   the io.Copy of each direction: none (the        *)
(*             library pipes, nomad), running or done                      *)
(*   handler   running or returned;  resource  open or closed              *)
(*   resizeCh, chClosed    the session's resize channel (capacity 1)       *)
(*   task      the resize task: none (serial reads no resizes), recv, send *)
(*             (nomad: blocked in `sizeCh <-` with event held), done       *)
(*   forwarded the window changes that reached the backend                 *)
(***************************************************************************)
StreamBackends == {"proxy", "docker", "nomad", "serial"}

InitStream ==
    /\ bk \in [backend : StreamBackends, client : {"open"}, input : {"open"},
               output : {"open"}, handler : {"running"}, resource : {"open"},
               toClient : {"none", "running"}, toBackend : {"none", "running"},
               resizeCh : {<<>>}, chClosed : {FALSE}, sent : {0},
               task : {"none", "recv"}, held : {0}, forwarded : {<<>>}]
    /\ bk.toClient = (IF bk.backend = "nomad" THEN "none" ELSE "running")
    /\ bk.toBackend = bk.toClient
    /\ bk.task = (IF bk.backend = "serial" THEN "none" ELSE "recv")
    /\ rt = None
    /\ MatchIdle /\ PermIdle /\ AuthIdle

StreamStep(next) ==
    /\ bk' = next
    /\ UNCHANGED <<matchVars, permVars, authVars, routerVars>>

\* The client ends its input and keeps the session.
ClientEOF ==
    /\ bk.client = "open" /\ bk.input = "open"
    /\ StreamStep([bk EXCEPT !.input = "eof"])

\* The client's session ends.
ClientTerminates ==
    /\ bk.client = "open"
    /\ StreamStep([bk EXCEPT !.client = "closed", !.input = "eof", !.chClosed = TRUE])

\* The client's window changes: the library puts the new size in the resize
\* channel when there is room.
ClientResizes ==
    /\ bk.client = "open" /\ bk.resizeCh = <<>> /\ bk.sent < MaxResizes
    /\ StreamStep([bk EXCEPT !.resizeCh = << bk.sent + 1 >>, !.sent = bk.sent + 1])

\* The backend writes.
BackendData ==
    /\ bk.output = "open" /\ bk.resource = "open"
    /\ StreamStep([bk EXCEPT !.output = "data"])

\* The exec, the remote command or the port ends.
BackendEnds ==
    /\ bk.output # "eof"
    /\ StreamStep([bk EXCEPT !.output = "eof"])

\* io.Copy(sess, backend): a read that returns bytes is written to the
\* session; the copy ends at end of stream, at a failed read from a closed
\* port, and at a failed write to a closed session.
CopyToClient ==
    /\ bk.toClient = "running"
    /\ \/ /\ bk.output = "data" /\ bk.client = "open"
          /\ StreamStep([bk EXCEPT !.output = "open"])
       \/ /\ \/ bk.output = "data" /\ bk.client = "closed"
             \/ bk.output = "eof"
             \/ bk.backend = "serial" /\ bk.resource = "closed"
          /\ StreamStep([bk EXCEPT !.toClient = "done"])

\* io.Copy(backend, sess): the copy ends when the session's input is at end
\* of stream.
CopyToBackend ==
    /\ bk.toBackend = "running"
    /\ bk.input = "eof"
    /\ StreamStep([bk EXCEPT !.toBackend = "done"])

\* The handler returns: Serial after its io.Copy(port, sess), closing the
\* port; Docker after its io.Copy(sess, hr.Reader), closing the attachment;
\* Proxy after cmd.Wait, closing the stdin pipe and not the connection; Nomad
\* when Exec returns, at the end of the exec or of the session's context.
HandlerReturns ==
    /\ bk.handler = "running"
    /\ CASE bk.backend = "serial" -> bk.toBackend = "done"
         [] bk.backend = "docker" -> bk.toClient = "done"
         [] bk.backend = "proxy"  -> bk.output = "eof"
         [] bk.backend = "nomad"  -> bk.output = "eof" \/ bk.client = "closed"
    /\ StreamStep([bk EXCEPT !.handler = "returned",
                             !.resource = IF bk.backend = "proxy" THEN @ ELSE "closed"])

\* The resize task takes a window size from the channel.  sshHandleResize
\* and dockerHandleResize call the backend's resize, which fails once the
\* backend ended; nomadHandleResize goes on to send the size on sizeCh.
HandleResize ==
    /\ bk.task = "recv" /\ bk.resizeCh # <<>>
    /\ StreamStep(
          IF bk.backend = "nomad"
          THEN [bk EXCEPT !.resizeCh = <<>>, !.task = "send", !.held = bk.resizeCh[1]]
          ELSE [bk EXCEPT !.resizeCh = <<>>,
                          !.forwarded = IF bk.output = "eof" \/ bk.resource = "closed"
                                        THEN @ ELSE Append(@, bk.resizeCh[1])])

\* Exec, while it runs, receives the size nomadHandleResize sends.
SizeChReceive ==
    /\ bk.task = "send" /\ bk.handler = "running"
    /\ StreamStep([bk EXCEPT !.task = "recv", !.held = 0,
                             !.forwarded = Append(@, bk.held)])

\* The range over the closed and empty resize channel ends.
HandleResizeDone ==
    /\ bk.task = "recv" /\ bk.resizeCh = <<>> /\ bk.chClosed
    /\ StreamStep([bk EXCEPT !.task = "done"])

NextStream ==
    \/ ClientEOF \/ ClientTerminates \/ ClientResizes
    \/ BackendData \/ BackendEnds
    \/ CopyToClient \/ CopyToBackend \/ HandlerReturns
    \/ HandleResize \/ SizeChReceive \/ HandleResizeDone

\* Every goroutine of the program that can take its step takes it in the
\* end; the client and the backend owe nothing.
SpecStream ==
    /\ InitStream /\ [][NextStream]_vars
    /\ WF_vars(CopyToClient) /\ WF_vars(CopyToBackend) /\ WF_vars(HandlerReturns)
    /\ WF_vars(HandleResize) /\ WF_vars(SizeChReceive) /\ WF_vars(HandleResizeDone)

(***************************************************************************)
(* Properties of the permission evaluator.                                 *)
(***************************************************************************)
Range(s) == {s[i] : i \in 1..Len(s)}

\* The groups a user's permissions are looked up under.
EffectiveGroups(u) == Range(u.Groups) \cup {"all"}

\* Some pattern under kind of one of the user's effective groups matches item.
SomeGroupMatches(m, u, kind, item) ==
    \E g \in EffectiveGroups(u) :
        /\ g \in DOMAIN m
        /\ kind \in DOMAIN m[g]
        /\ \E p \in Range(m[g][kind]) : matchPattern(p, item)

\* C1: with a permission map present, IsAllowed returns false whenever a deny
\* pattern of one of the user's groups or of `all` matches one of the items,
\* whatever the order of the groups and whatever the allow patterns.
C1_DenyWins ==
    (/\ pOut # None
     /\ ~pIn.pm.isNil
     /\ \E k \in 1..Len(pIn.items) : SomeGroupMatches(pIn.pm.m, pIn.u, "deny", pIn.items[k]))
    => pOut = Some(FALSE)

\* The first group of the user allows the item, `all`, looked up last, denies
\* it, and the call has returned false.
C1_Witness ==
    /\ pOut = Some(FALSE)
    /\ ~pIn.pm.isNil
    /\ Len(pIn.u.Groups) >= 1 /\ Len(pIn.items) >= 1
    /\ pIn.u.Groups[1] \in DOMAIN pIn.pm.m
    /\ listMatches(pIn.pm.m[pIn.u.Groups[1]], "allow", pIn.items[1])
    /\ ~listMatches(pIn.pm.m[pIn.u.Groups[1]], "deny", pIn.items[1])
    /\ "all" \in DOMAIN pIn.pm.m
    /\ listMatches(pIn.pm.m["all"], "deny", pIn.items[1])

\* The reference result of IsAllowed.
IsAllowedRef(pm, u, items) ==
    \/ pm.isNil
    \/ \A k \in 1..Len(items) :
          /\ SomeGroupMatches(pm.m, u, "allow", items[k])
          /\ ~SomeGroupMatches(pm.m, u, "deny", items[k])

\* C2: IsAllowed is true for an absent map, and otherwise exactly when every
\* item is matched by an allow pattern of some effective group and by no deny
\* pattern of any; an empty map denies every item, and a user without groups
\* is subject to `all`.
C2_Reference ==
    pOut # None =>
        /\ pOut = Some(IsAllowedRef(pIn.pm, pIn.u, pIn.items))
        /\ (~pIn.pm.isNil /\ DOMAIN pIn.pm.m = {} /\ pIn.items # <<>>) => pOut = Some(FALSE)

\* A user without groups is let through by the entry of `all`.
C2_Witness ==
    /\ pOut = Some(TRUE)
    /\ ~pIn.pm.isNil
    /\ pIn.u.Groups = <<>>
    /\ Len(pIn.items) = MaxItems
    /\ DOMAIN pIn.pm.m = PermGroupNames

(***************************************************************************)
(* Properties of matchPattern.                                             *)
(***************************************************************************)
\* s has the text of p before position i as prefix and the text after it as
\* suffix, character by character.
AroundStar(p, i, s) ==
    /\ Len(s) >= i - 1
    /\ \A j \in 1..(i - 1) : s[j] = p[j]
    /\ Len(s) >= Len(p) - i
    /\ \A j \in (i + 1)..Len(p) : s[Len(s) - Len(p) + j] = p[j]

MatchRef(p, s) ==
    \/ p = <<"*">>
    \/ \E i \in 1..Len(p) :
          /\ p[i] = "*"
          /\ \A j \in 1..(i - 1) : p[j] # "*"
          /\ AroundStar(p, i, s)
    \/ (\A i \in 1..Len(p) : p[i] # "*") /\ p = s

\* C3: matchPattern(p, s) is true for p = `*`; for a p with a `*`, exactly
\* when s starts with the text before the first `*` and ends with the text
\* after it; for a p without `*`, exactly when p = s.
C3_Reference ==
    mOut # None => mOut = Some(MatchRef(mIn.pattern, mIn.item))

\* A pattern with text on both sides of its `*` matches an item in which the
\* prefix and the suffix overlap.
C3_Witness ==
    /\ mOut = Some(TRUE)
    /\ mIn.pattern = <<"a", "*", "a">>
    /\ mIn.item = <<"a">>

(***************************************************************************)
(* Properties of the rate limiter and of the login callbacks (Spec).       *)
(***************************************************************************)
\* The failed-login counter of an IP, 0 when the map has no entry for it.
Counter(att, ip) == IF ip \in DOMAIN att THEN att[ip] ELSE 0

\* The IP of the remote address of an open connection.
IpOf(c) == conn[c].addr[1].ip

GateOps == {"password", "pubkey"}
DoneOps == {"password_done", "pubkey_done"}

\* C4 as claimed, for every configured maximum: below the maximum
\* LoginAllowed is true, from the maximum on it is false, and right after a
\* reset it is true.
C4_EveryMaximum ==
    ~f2b.isNil =>
        \A a \in Addrs :
            /\ hist.failed[a.ip] < f2b.amount => LoginAllowed(f2b, attempts, a)
            /\ hist.failed[a.ip] >= f2b.amount => ~LoginAllowed(f2b, attempts, a)
            /\ last.op = "clear" => LoginAllowed(f2b, attempts, a)

\* C4: for every address A and every configured maximum of at least 1: with
\* fewer AddFailedLogin(A) calls than the maximum since the last reset
\* LoginAllowed(A) is true; from the maximum on it is false until the next
\* reset; right after a reset it is true.
C4_PositiveMaximum ==
    (~f2b.isNil /\ f2b.amount >= 1) =>
        \A a \in Addrs :
            /\ hist.failed[a.ip] < f2b.amount => LoginAllowed(f2b, attempts, a)
            /\ hist.failed[a.ip] >= f2b.amount => ~LoginAllowed(f2b, attempts, a)
            /\ last.op = "clear" => LoginAllowed(f2b, attempts, a)

\* After a reset one IP has failed exactly the maximum number of times again
\* and is refused, while the other IP, one failure short, is allowed.
C4_Witness ==
    /\ ~f2b.isNil /\ f2b.amount = MaxAmount /\ MaxAmount >= 1
    /\ hist.resets
    /\ hist.failed[<<"1">>] = f2b.amount
    /\ hist.failed[<<"2">>] = f2b.amount - 1
    /\ ~LoginAllowed(f2b, attempts, [kind |-> "tcp", ip |-> <<"1">>, port |-> <<"8">>])
    /\ LoginAllowed(f2b, attempts, [kind |-> "tcp", ip |-> <<"2">>, port |-> <<"7">>])

\* C5 as claimed: when a login callback returns true, the counter of the
\* connection's address is below the threshold.
C5_AtReturn ==
    \A c \in Conns :
        (~f2b.isNil /\ last.c = c /\ last.op \in DoneOps /\ conn[c].ret = "true")
        => Counter(attempts, IpOf(c)) < f2b.amount

\* C5: when a login callback passes its LoginAllowed check, the counter of
\* the connection's address is below the threshold, and a callback returns
\* true only after it has passed that check; failed-connection callbacks of
\* other connections may raise the counter before the callback returns.
C5_AtGate ==
    \A c \in Conns :
        ~f2b.isNil =>
            /\ (last.c = c /\ last.op \in GateOps /\ conn[c].gate = "passed")
               => Counter(attempts, IpOf(c)) < f2b.amount
            /\ conn[c].ret = "true" => conn[c].gate = "passed"

\* A callback has just returned true although the counter of its address
\* has reached the threshold since it passed the check.
C5_Witness ==
    \E c \in Conns :
        /\ ~f2b.isNil /\ f2b.amount = MaxAmount
        /\ last.c = c /\ last.op \in DoneOps
        /\ conn[c].ret = "true" /\ conn[c].gate = "passed"
        /\ Counter(attempts, IpOf(c)) >= f2b.amount

\* What C6 says of the latest step, for the configured maxima that satisfy
\* positive: a password attempt from an IP with at least the maximum of
\* failures since the last reset is refused without user lookup or hash
\* comparison; a password attempt from an IP without failures since a reset
\* passes the check, and its password is compared once its user is resolved.
PasswordThrottle(positive) ==
    \A c \in Conns :
        (~f2b.isNil /\ last.c = c) =>
            /\ (last.op = "password" /\ hist.failed[IpOf(c)] >= f2b.amount)
               => /\ conn[c].gate = "blocked" /\ conn[c].ret = "false"
                  /\ ~conn[c].looked /\ ~conn[c].compared /\ conn[c].pc = "auth"
            /\ (last.op = "password" /\ hist.resets /\ hist.failed[IpOf(c)] = 0 /\ positive)
               => conn[c].gate = "passed" /\ conn[c].pc = "password"
            /\ (last.op = "password_done" /\ conn[c].ctxUser # None)
               => conn[c].looked /\ conn[c].compared

C7_BlockedLogin ==
    [][\A c \in Conns :
          (/\ ~f2b.isNil
           /\ last'.c = c /\ last'.op \in GateOps
           /\ Counter(attempts, IpOf(c)) >= f2b.amount)
          => conn'[c] = [conn[c] EXCEPT !.gate = "blocked", !.looked = FALSE,
                                        !.compared = FALSE, !.ret = "false"]]_vars

\* A public-key attempt has just been refused on a connection whose user
\* was resolved by an earlier attempt.
C7_Witness ==
    \E c \in Conns :
        /\ ~f2b.isNil /\ f2b.amount = MaxAmount
        /\ last.c = c /\ last.op = "pubkey"
        /\ conn[c].gate = "blocked" /\ conn[c].ret = "false"
        /\ conn[c].ctxUser # None

\* C8: with a limiter, a step changes the counters only as follows: a failed
\* handshake whose error contains `permission denied` adds 1 to the counter
\* of the connection's IP and to no other, a reset empties all counters, and
\* every other step leaves all counters as they are.
C8_CounterFrame ==
    [][~f2b.isNil =>
         \A ip \in IPs :
            Counter(attempts', ip) =
               CASE last'.op = "failed" ->
                       IF last'.pd /\ ip = IpOf(last'.c)
                       THEN Counter(attempts, ip) + 1
                       ELSE Counter(attempts, ip)
                 [] last'.op = "clear" -> 0
                 [] OTHER -> Counter(attempts, ip)]_vars

\* A failed handshake with `permission denied` has just been counted for one
\* IP while the other IP keeps its own count.
C8_Witness ==
    /\ ~f2b.isNil
    /\ last.op = "failed" /\ last.pd
    /\ Counter(attempts, <<"1">>) = 2
    /\ Counter(attempts, <<"2">>) = 1

(***************************************************************************)
(* Properties of user resolution (SpecLabel).                              *)
(***************************************************************************)
Has(name, ch) == \E i \in 1..Len(name) : name[i] = ch

FirstAt(name, ch, i) == name[i] = ch /\ \A j \in 1..(i - 1) : name[j] # ch

\* C9: for an SSH username with neither `:` nor `~`, no argument and no user
\* is ever bound into the context, no hash or key is compared, and every
\* login callback that gets to getUser returns false.
C9_NoSeparator ==
    \A c \in Conns :
        (conn[c].pc # "closed" /\ ~Has(conn[c].name, ":") /\ ~Has(conn[c].name, "~"))
        => /\ conn[c].ctxUser = None /\ conn[c].ctxArg = None
           /\ ~conn[c].compared
           /\ conn[c].ret # "true"
           /\ conn[c].pc \in {"auth", "password", "pubkey"}
           /\ (last.c = c /\ last.op \in DoneOps) => conn[c].looked /\ conn[c].ret = "false"

\* The password callback has just run getUser for the bare name of a user
\* of the directory.
C9_Witness ==
    \E c \in Conns :
        /\ last.c = c /\ last.op = "password_done"
        /\ conn[c].name = <<"a">>
        /\ conn[c].looked /\ conn[c].ret = "false"

\* The context of c holds the split of its SSH username at position i.
SplitAt(c, i) ==
    LET name == conn[c].name
        pre  == SubSeq(name, 1, i - 1)
    IN /\ conn[c].ctxArg = Some(SubSeq(name, i + 1, Len(name)))
       /\ conn[c].ctxUser # None => conn[c].ctxUser[1].Name = pre
       /\ conn[c].ctxUser = None => \A k \in 1..Len(Users) : Users[k].Name # pre

\* C10: once getUser has run, a username with a `:` is split at its first
\* `:`, also when it has a `~`, before or after the `:`; a username is split
\* at its first `~` only when it has no `:`.
C10_ColonFirst ==
    \A c \in Conns :
        (conn[c].looked \/ conn[c].ctxArg # None) =>
            \A i \in 1..Len(conn[c].name) :
                /\ FirstAt(conn[c].name, ":", i) => SplitAt(c, i)
                /\ (FirstAt(conn[c].name, "~", i) /\ ~Has(conn[c].name, ":")) => SplitAt(c, i)

\* getUser has run for a username whose `~` comes before its `:`: the text
\* after the `:` is the argument, and no user is named `b~`.
C10_Witness ==
    \E c \in Conns :
        /\ conn[c].looked
        /\ conn[c].name = <<"b", "~", ":">>
        /\ conn[c].ctxArg = Some(<<>>)
        /\ conn[c].ctxUser = None

(***************************************************************************)
(* Properties of the router (SpecRouter) and of dispatch after             *)
(* authentication (Spec).                                                  *)
(***************************************************************************)
\* The latest session of the router of SpecRouter and what Router.Handler
\* did for it.
Sess == rt.session[1]

Calls == Sess.out.calls

\* The handler invocations among the calls of the session.
HandlerCalls == {n \in 1..Len(Calls) : Calls[n].at = "handler"}

\* C11: at every invocation Router.Handler makes for a session, of a
\* middleware or of the route's handler, a route is bound in the context; it
\* is the route the dispatch selected, and the handler invoked is that
\* route's handler.
C11_RouteBound ==
    rt.session # None =>
        /\ \A n \in 1..Len(Calls) :
              /\ Calls[n].route # None
              /\ Calls[n].route = Some(rt.routes[Sess.k])
              /\ Calls[n].route = Sess.out.ctxRoute
              /\ Calls[n].at = "handler" => Calls[n].who = Calls[n].route[1].name
        /\ Calls # <<>> => Cardinality(HandlerCalls) = 1

\* A session ran through two middlewares into the handler of one of two
\* registered routes.
C11_Witness ==
    /\ rt.session # None
    /\ Len(Calls) = 5
    /\ Cardinality(DOMAIN rt.routes) = 2
    /\ Calls[3].at = "handler" /\ Calls[3].who = "r2"

\* name is prefix followed by `:` or `~` and the rest.
NamePrefix(name, prefix) ==
    /\ Len(name) > Len(prefix)
    /\ SubSeq(name, 1, Len(prefix)) = prefix
    /\ name[Len(prefix) + 1] \in {":", "~"}

\* C12: on every connection for which Router.Handler has invoked a handler,
\* a user of the directory is bound in the context, the user's name is the
\* part of the connection's SSH username before the separator, and the
\* latest login callback of the connection returned true.
C12_AuthenticatedUser ==
    \A c \in Conns :
        conn[c].served # <<>> =>
            /\ conn[c].ctxUser # None
            /\ \E i \in 1..Len(Users) : Users[i] = conn[c].ctxUser[1]
            /\ NamePrefix(conn[c].name, conn[c].ctxUser[1].Name)
            /\ conn[c].ret = "true"

\* The handler of a route ran for the session of user a, who asked for x.
C12_Witness ==
    \E c \in Conns :
        /\ conn[c].name = <<"a", ":", "x">>
        /\ \E n \in 1..Len(conn[c].served) : conn[c].served[n].at = "handler"
        /\ conn[c].ctxUser # None /\ conn[c].ctxUser[1].Name = <<"a">>

\* The Handle calls whose pattern compiled and matches arg, by position.
RegisteredMatches(arg) ==
    {i \in 1..Len(rt.handled) :
        /\ ~rt.handled[i].err
        /\ FindStringSubmatch(rt.handled[i].pattern, arg) # <<>>}

\* C13: the handler a dispatch invokes is the handler of the
\* earliest-registered route whose pattern matches the argument.
C13_EarliestRegistered ==
    (rt.session # None /\ Calls # <<>>) =>
        LET m     == RegisteredMatches(Sess.arg)
            first == CHOOSE i \in m : \A j \in m : i <= j
        IN \A n \in HandlerCalls : Calls[n].who = rt.handled[first].name

\* The capturing groups of a pattern, by item, and the number of a group.
CapturingItems(re) == {k \in 1..Len(re) : re[k].grp \in {"plain", "arg"}}

GroupNo(re, k) == Cardinality({j \in CapturingItems(re) : j <= k})

NamedArgItems(re) == {k \in 1..Len(re) : re[k].grp = "arg"}

\* C14: when the pattern of the selected route has a group named arg, the
\* handler and the middlewares get the capture of that group, whatever its
\* number; when it has capturing groups but none named arg, they get the
\* capture of group 1.
C14_NamedThenFirst ==
    (rt.session # None /\ Calls # <<>>) =>
        LET re    == rt.routes[Sess.k].regex
            m     == FindStringSubmatch(re, Sess.arg)
            named == NamedArgItems(re)
        IN \A n \in 1..Len(Calls) :
              /\ named # {} =>
                    Calls[n].arg =
                        m[1 + GroupNo(re, CHOOSE k \in named : \A j \in named : k <= j)]
              /\ (named = {} /\ CapturingItems(re) # {}) => Calls[n].arg = m[2]

\* (y)(?P<arg>.+) matched yx: the handler got x, the capture of group 2.
C14_Witness ==
    /\ rt.session # None /\ Calls # <<>>
    /\ Sess.arg = <<"y", "x">>
    /\ rt.routes[Sess.k].regex =
          << [grp |-> "plain", body |-> <<"y">>], [grp |-> "arg", body |-> <<".+">>] >>
    /\ \A n \in 1..Len(Calls) : Calls[n].arg = <<"x">>

\* C15: when the pattern of the selected route has no capturing group, the
\* handler gets the part of the argument the pattern matched.
C15_FullMatch ==
    (rt.session # None /\ Calls # <<>>) =>
        LET re == rt.routes[Sess.k].regex IN
        CapturingItems(re) = {} =>
            \A n \in 1..Len(Calls) :
                Calls[n].arg = FindStringSubmatch(re, Sess.arg)[1]

\* C16: with middlewares registered, the first-registered one makes the
\* first and the last call of a dispatch, and the route's handler is called
\* after every middleware has started and before any has finished.
C16_FirstOutermost ==
    (rt.session # None /\ Calls # <<>> /\ rt.middlewares # <<>>) =>
        /\ Calls[1].who = rt.middlewares[1] /\ Calls[1].at = "before"
        /\ Calls[Len(Calls)].who = rt.middlewares[1] /\ Calls[Len(Calls)].at = "after"
        /\ HandlerCalls = {Len(rt.middlewares) + 1}

\* C17: a dispatch whose handler returned an error with message M wrote the
\* prefix, M as it is and CR LF to stderr, once; a dispatch whose handler
\* returned nil wrote nothing.
C17_MessageUnchanged ==
    (rt.session # None /\ Calls # <<>>) =>
        IF Sess.err = None THEN Sess.out.stderr = <<>>
        ELSE Sess.out.stderr = << ErrorPrefix \o Sess.err[1] \o << "\r", "\n" >> >>

\* s with a backslash before every double quote and backslash, from i on.
RECURSIVE EscapedFrom(_, _)
EscapedFrom(s, i) ==
    IF i > Len(s) THEN <<>>
    ELSE (IF s[i] = "\"" THEN << "\\", "\"" >>
          ELSE IF s[i] = "\\" THEN << "\\", "\\" >>
          ELSE << s[i] >>) \o EscapedFrom(s, i + 1)

\* The error line for an argument no route matches.
NoRouteLine(arg) ==
    ErrorPrefix \o << "no matching route found for ", "\"" >> \o EscapedFrom(arg, 1)
        \o << "\"", "\r", "\n" >>

\* C18: when no registered pattern matches the argument of the context (the
\* empty string when none is stored), the dispatch invokes nothing, leaves
\* the context without route, and writes the no-matching-route line, with
\* the argument quoted as Go's %q quotes it, to stderr once.
C18_NoRoute ==
    rt.session # None =>
        LET arg == IF Sess.ctxArg = None THEN <<>> ELSE Sess.ctxArg[1] IN
        (\A q \in DOMAIN rt.routes : FindStringSubmatch(rt.routes[q].regex, arg) = <<>>)
        => /\ Calls = <<>>
           /\ Sess.out.ctxRoute = None
           /\ Sess.out.stderr = << NoRouteLine(arg) >>

\* A session without stored argument on a router whose only route needs an
\* x got the line for the empty string.
C18_Witness ==
    /\ rt.session # None
    /\ Sess.ctxArg = None
    /\ DOMAIN rt.routes = { << [grp |-> "none", body |-> <<"x">>] >> }
    /\ Calls = <<>>
    /\ Sess.out.stderr =
          << ErrorPrefix \o << "no matching route found for ", "\"", "\"", "\r", "\n" >> >>

IllFormed(pattern) == \E j \in 1..Len(pattern) : pattern[j].grp = "open"

\* C19: a Handle call with a pattern that does not compile returns an error
\* and leaves the routes as they were; Handle calls with a well-formed
\* pattern, before and after it, store their route; and a session whose
\* argument no stored pattern matches gets the no-matching-route line.
C19_RejectedPattern ==
    /\ \A i \in 1..Len(rt.handled) :
          LET h == rt.handled[i] IN
          IF IllFormed(h.pattern)
          THEN h.err /\ h.after = h.before
          ELSE ~h.err /\ h.pattern \in DOMAIN h.after /\ h.after[h.pattern].name = h.name
    /\ \A q \in DOMAIN rt.routes : ~IllFormed(q)
    /\ (rt.session # None /\ RegisteredMatches(Sess.arg) = {}) =>
          /\ Calls = <<>>
          /\ Sess.out.stderr = << NoRouteLine(Sess.arg) >>

\* (x was rejected, (y)(?P<arg>.+) was registered after it, and a session
\* asking for x found no route.
C19_Witness ==
    /\ Len(rt.handled) = 2
    /\ IllFormed(rt.handled[1].pattern) /\ rt.handled[1].err
    /\ ~rt.handled[2].err /\ DOMAIN rt.routes = {rt.handled[2].pattern}
    /\ rt.session # None
    /\ Sess.arg = <<"x">>
    /\ Sess.out.stderr = << NoRouteLine(<<"x">>) >>

(***************************************************************************)
(* Properties of the backends (SpecBackend).                               *)
(***************************************************************************)
Out == bk.out[1]

\* The handler evaluated IsAllowed and the answer was no.
Denied == bk.out # None /\ Out.checked /\ ~Out.allowed

\* Operations that open or start something on a backend, and the read-only
\* queries of the scheduler.
OpeningOps == {"dial", "shell", "exec_create", "exec_attach", "exec_start", "exec", "open"}

QueryOps == {"allocations", "info"}

Ops(effects) == {effects[n].op : n \in 1..Len(effects)}

\* C20 as stated: a handler whose IsAllowed check fails returns the
\* unauthorized error and has done nothing on its backend, no scheduler
\* query included.
C20_NoEffectBeforeCheck ==
    Denied => Out.err = Some(ErrUnauthorized) /\ Out.effects = <<>>

\* C20, amended: a handler whose IsAllowed check fails returns the
\* unauthorized error and has opened nothing on its backend: no dial, no
\* container exec, no scheduler exec, no serial port.  The proxy, docker and
\* serial handlers have done nothing at all; the scheduler handler has made
\* its allocation queries, and only those.
C20_NoOpenBeforeCheck ==
    Denied =>
        /\ Out.err = Some(ErrUnauthorized)
        /\ Ops(Out.effects) \cap OpeningOps = {}
        /\ bk.in.backend # "nomad" => Out.effects = <<>>
        /\ bk.in.backend = "nomad" => Ops(Out.effects) = QueryOps

\* A user of g1 asked for task u of job w, which is denied to g1: the
\* handler queried the allocations and the allocation and then refused.
C20_Witness ==
    /\ Denied
    /\ bk.in.backend = "nomad"
    /\ bk.in.arg = <<"w", ".", "u">>
    /\ bk.in.user.Groups = <<"g1">>
    /\ Out.err = Some(ErrUnauthorized)
    /\ Len(Out.effects) = 2

\* The exec calls a handler call made on the scheduler: allocation and task.
Execs == {n \in 1..Len(Out.effects) : Out.effects[n].op = "exec"}

ExecAlloc(n) == allocInfo(Out.effects[n].what[1])[1]

ExecTask(n) == Out.effects[n].what[2]

\* C21: the nomad handler invokes exec only when IsAllowed holds for the job
\* and the task group of the allocation the exec runs in and for its task.
C21_ExecAllowed ==
    (bk.out # None /\ bk.in.backend = "nomad") =>
        \A n \in Execs :
            IsAllowed(bk.in.perms, bk.in.user,
                      << << "job:" >> \o ExecAlloc(n).JobID,
                         << "task:" >> \o ExecTask(n),
                         << "group:" >> \o ExecAlloc(n).TaskGroup >>)

(***************************************************************************)
(* Properties of the serial mode parser (SpecMode).                        *)
(***************************************************************************)
\* The grammar of mode strings: a digit, a parity letter in either case, and
\* 1, 1.5 or 2.
ModeGrammar ==
    { << d, p >> \o s :
        d \in Range(DigitChars),
        p \in {"n", "e", "o", "m", "s", "N", "E", "O", "M", "S"},
        s \in { << "1" >>, << "1", ".", "5" >>, << "2" >> } }

ModeOf(s) ==
    [BaudRate |-> 0,
     DataBits |-> digitValue(s[1]),
     Parity   |-> CASE s[2] \in {"n", "N"} -> "NoParity"
                    [] s[2] \in {"e", "E"} -> "EvenParity"
                    [] s[2] \in {"o", "O"} -> "OddParity"
                    [] s[2] \in {"m", "M"} -> "MarkParity"
                    [] s[2] \in {"s", "S"} -> "SpaceParity",
     StopBits |-> CASE Len(s) = 5 -> "OnePointFiveStopBits"
                    [] s[3] = "1" -> "OneStopBit"
                    [] s[3] = "2" -> "TwoStopBits"]

\* C25: parseSerialMode returns the mode of every string of the grammar and
\* an error value for every other string, the empty string and the strings
\* of one and two characters included; it never panics.
C25_ModeOrError ==
    bk.out # None =>
        IF bk.in \in ModeGrammar
        THEN Out.err = None /\ Out.mode = Some(ModeOf(bk.in))
        ELSE Out.err # None /\ ~Panicked(Out.err) /\ Out.mode = None

(***************************************************************************)
(* Properties of the serial backend (SpecBackend).                         *)
(***************************************************************************)
SerialCall == bk.out # None /\ bk.in.backend = "serial" /\ ~bk.in.settings.err

Opens == {n \in 1..Len(Out.effects) : Out.effects[n].op = "open"}

\* The n-th token of the argument, empty when there is none.
Token(n) ==
    LET tokens == Split(bk.in.arg, bk.in.settings.delimiter) IN
    IF n <= Len(tokens) THEN tokens[n] ELSE <<>>

OnlyDirectory == bk.in.settings.directory # None /\ bk.in.settings.file = None

OnlyFile == bk.in.settings.directory = None /\ bk.in.settings.file # None

ArgBaud == IF OnlyFile THEN Token(1) ELSE Token(2)

ArgMode == IF OnlyFile THEN Token(2) ELSE Token(3)

BaudGiven == ArgBaud # <<>> \/ bk.in.settings.baud_rate # None

ModeGiven == ArgMode # <<>> \/ bk.in.settings.config # None

WantFile ==
    IF OnlyFile THEN bk.in.settings.file[1]
    ELSE Join(bk.in.settings.directory[1], Token(1))

WantBaud == IF ArgBaud # <<>> THEN Atoi(ArgBaud).n ELSE bk.in.settings.baud_rate[1]

WantMode == IF ArgMode # <<>> THEN ArgMode ELSE bk.in.settings.config[1]

\* C26: a serial handler with directory or file set opens the file, baud
\* rate and mode its argument's tokens name, the argument before the
\* settings; when the baud rate or the mode is given in neither, it returns
\* an error and opens no port.
C26_SerialTarget ==
    (SerialCall /\ (OnlyDirectory \/ OnlyFile)) =>
        /\ \A n \in Opens :
              /\ BaudGiven /\ ModeGiven /\ WantMode \in ModeGrammar
              /\ Out.effects[n].what.file = WantFile
              /\ Out.effects[n].what.mode = [ModeOf(WantMode) EXCEPT !.BaudRate = WantBaud]
        /\ (~BaudGiven \/ ~ModeGiven) =>
              Out.err # None /\ ~Panicked(Out.err) /\ Opens = {}

\* C27: a serial handler whose settings have neither or both of directory
\* and file returns an error and opens no port.
C27_ExactlyOne ==
    (SerialCall /\ ~OnlyDirectory /\ ~OnlyFile) =>
        Out.err # None /\ ~Panicked(Out.err) /\ Opens = {}

(***************************************************************************)
(* Properties of the PTY requirement and of the proxy's host selection     *)
(* (SpecBackend).                                                          *)
(***************************************************************************)
\* C22: a handler called for a session without PTY returns an error and has
\* done nothing on its backend: no dial, no container exec, no scheduler
\* query or exec, no serial port.
C22_NoPtyNoResource ==
    (bk.out # None /\ ~bk.in.pty) =>
        Out.err # None /\ ~Panicked(Out.err) /\ Out.effects = <<>>

\* A permitted user's docker session without PTY was refused for the missing
\* PTY.
C22_Witness ==
    /\ bk.out # None /\ ~bk.in.pty
    /\ bk.in.backend = "docker"
    /\ Out.checked /\ Out.allowed
    /\ Out.err = Some(ErrNoPty)
    /\ Out.effects = <<>>

\* A proxy call that passed the permission check, the settings and the PTY
\* requirement, with a readable key: it is at its host selection.
ProxySelects ==
    /\ bk.out # None /\ bk.in.backend = "proxy"
    /\ Out.checked /\ Out.allowed
    /\ ~bk.in.settings.err /\ bk.in.pty
    /\ bk.in.settings.privkey # "unreadable"

Dials == {n \in 1..Len(Out.effects) : Out.effects[n].op = "dial"}

\* The address and the port of a host setting or pattern.
ColonAt(h) == CHOOSE i \in 1..Len(h) : FirstAt(h, ":", i)

HostAddr(h) == IF Has(h, ":") THEN SubSeq(h, 1, ColonAt(h) - 1) ELSE h

HostPort(h) == IF Has(h, ":") THEN SubSeq(h, ColonAt(h) + 1, Len(h)) ELSE << "2", "2" >>

\* C23: with the host setting present the proxy handler dials the
\* configured address and port, whatever the argument.
C23_HostDialled ==
    (ProxySelects /\ bk.in.settings.host # None) =>
        /\ Dials # {}
        /\ \A n \in Dials :
              Out.effects[n].what =
                  HostAddr(bk.in.settings.host[1]) \o << ":" >> \o HostPort(bk.in.settings.host[1])

\* The patterns of hosts whose address part matches the argument.
Matching ==
    {i \in 1..Len(bk.in.settings.hosts) : Glob(HostAddr(bk.in.settings.hosts[i]), bk.in.arg)}

FirstMatching == CHOOSE i \in Matching : \A j \in Matching : i <= j

C28_Teardown ==
    (bk.client = "closed") ~> (bk.handler = "returned" /\ bk.resource = "closed")

\* C29: the serial and the docker handler return once either direction has
\* ended, and a returned serial handler has closed its port.
C29_EitherDirection ==
    /\ [](bk.backend = "serial" /\ bk.handler = "returned" => bk.resource = "closed")
    /\ (bk.backend \in {"serial", "docker"} /\ (bk.input = "eof" \/ bk.output = "eof"))
           ~> (bk.handler = "returned")

\* C30: the resize task forwards the window changes in arrival order and
\* ends once the resize channel is closed.
C30_ResizeTask ==
    /\ [](\A i, j \in 1..Len(bk.forwarded) : i < j => bk.forwarded[i] < bk.forwarded[j])
    /\ (bk.task # "none" /\ bk.chClosed) ~> (bk.task = "done")

(***************************************************************************)
(* Properties of the nomad handler's argument forms (SpecBackend).         *)
(***************************************************************************)
NomadTokens == Split(bk.in.arg, bk.in.settings.delimiter)

\* A nomad call that decoded its settings, has a PTY and found allocations.
NomadLooksUp ==
    /\ bk.out # None /\ bk.in.backend = "nomad"
    /\ ~bk.in.settings.err /\ bk.in.pty
    /\ bk.in.world \notin {"clientErr", "allocErr", "noAllocs"}
    /\ jobAllocations(NomadTokens[1]) # <<>>

\* C33: a nomad call with four tokens whose allocRef parses as an integer,
\* negative or too large included, never reads outside the allocation list:
\* it does not panic.
C33_IndexInList ==
    (NomadLooksUp /\ Len(NomadTokens) = 4 /\ Atoi(NomadTokens[2]).ok) =>
        ~Panicked(Out.err)

\* C38: a nomad call that found allocations invokes exec exactly once or
\* returns an error, whatever the number of tokens: it does not return nil
\* without an exec.
C38_ExecOrError ==
    NomadLooksUp => (Cardinality(Execs) = 1 \/ Out.err # None)

(***************************************************************************)
(* Properties of the router's dispatch and registrations (SpecRouter).     *)
(***************************************************************************)
\* C35: a session gets at most one handler invocation, and exactly one when
\* some route matches, whether the handler returns an error or not and
\* however many routes match.
C35_OneHandlerOnce ==
    rt.session # None =>
        /\ Cardinality(HandlerCalls) <= 1
        /\ matchingRoutes(rt.routes, Sess.arg) # {} => Cardinality(HandlerCalls) = 1
        /\ Len(Sess.out.stderr) <= 1

\* Two routes match the session's argument and the handler returned an
\* error: one handler was invoked, once.
C35_Witness ==
    /\ rt.session # None
    /\ Cardinality(matchingRoutes(rt.routes, Sess.arg)) = 2
    /\ Sess.err # None
    /\ Cardinality(HandlerCalls) = 1

\* The Handle calls so far that returned nil.
Succeeded == {i \in 1..Len(rt.handled) : ~rt.handled[i].err}

\* C37: the router holds one route for each successful Handle call, under
\* the name it was registered with.
C37_RoutesKept ==
    /\ Cardinality(DOMAIN rt.routes) = Cardinality(Succeeded)
    /\ \A i \in Succeeded : \E x \in DOMAIN rt.routes : rt.routes[x].name = rt.handled[i].name

(***************************************************************************)
(* Properties of the process's exit (SpecMain).                            *)
(***************************************************************************)
\* C34: the process exits with code 1 after each start-up error (config
\* load, host keys, listener bind or serve) and with code 0 only when it met
\* no error.
C34_ExitCodes ==
    bk.pc = "exited" =>
        /\ bk.failed # "none" => bk.exit = 1
        /\ bk.exit = 0 => bk.failed = "none"

(***************************************************************************)
(* Properties of the limiter under concurrency (SpecLock).                 *)
(***************************************************************************)
\* C36: under every interleaving of AddFailedLogin, LoginAllowed and the
\* reset goroutine no increment is lost and no read sees a partial reset:
\* at most one goroutine is between Lock and Unlock, whenever none is the
\* counter of every IP is the number of AddFailedLogin calls for it that
\* returned since the last reset, a read sees exactly that number and never
\* a map the reset has half emptied, and after the reset all counters are
\* zero.
C36_NoLostUpdate ==
    ~bk.f.isNil =>
        /\ Cardinality(bk.held) <= 1
        /\ bk.held = {} => \A ip \in IPs : MapGet(bk.att, ip) = bk.done[ip]
        /\ bk.read # None =>
              /\ bk.read[1].seen = bk.read[1].done
              /\ ~bk.read[1].partial
              /\ bk.read[1].allowed = (bk.read[1].done < bk.f.amount)
        /\ bk.pc["clear"] = "clearUnlock" => \A ip \in IPs : MapGet(bk.att, ip) = 0

C36_Witness ==
    /\ ~bk.f.isNil /\ bk.held = {} /\ bk.waited /\ bk.reset
    /\ bk.done[<<"1">>] = 2 /\ MapGet(bk.att, <<"1">>) = 2
    /\ bk.read # None /\ bk.read[1].seen >= 1

(***************************************************************************)
(* Properties of the upstream password prompt (SpecPassword).              *)
(***************************************************************************)
\* The bytes read so far.
Typed == SubSeq(bk.orig, 1, Len(bk.orig) - Len(bk.input))

\* What the bytes s leave in a buffer where 0x7F removes the byte kept last.
RECURSIVE Kept(_)
Kept(s) ==
    IF s = <<>> THEN <<>>
    ELSE LET k == Kept(SubSeq(s, 1, Len(s) - 1))
             c == s[Len(s)]
         IN IF c = DEL THEN (IF k = <<>> THEN <<>> ELSE SubSeq(k, 1, Len(k) - 1))
            ELSE Append(k, c)

\* s is k without its leading and trailing whitespace.
Trimmed(k, s) ==
    /\ s = <<>> \/ (~IsSpace(s[1]) /\ ~IsSpace(s[Len(s)]))
    /\ \E i \in 0..Len(k), j \in 0..Len(k) :
          /\ i <= j /\ s = SubSeq(k, i + 1, j)
          /\ \A x \in (1..i) \cup ((j + 1)..Len(k)) : IsSpace(k[x])

\* The position in what the client sends of the first byte that ends the
\* prompt, 0 when there is none.
EndingAt ==
    LET ends == {i \in 1..Len(bk.orig) : bk.orig[i] \in {"\r", "\n", ETX, EOT}}
    IN IF ends = {} THEN 0 ELSE CHOOSE i \in ends : \A j \in ends : i <= j

PromptRead == bk.pc = "returned" /\ bk.stderr

\* C31: a prompt that meets CR or LF first returns the bytes typed before
\* it, each 0x7F having removed the byte kept last (none on an empty
\* buffer), without leading and trailing whitespace and without error, and
\* has read nothing after that CR or LF; it returns without error in no
\* other case.
C31_CommitAtNewline ==
    PromptRead =>
        /\ (EndingAt # 0 /\ bk.orig[EndingAt] \in {"\r", "\n"}) =>
              /\ bk.ret[1].err = None
              /\ Trimmed(Kept(SubSeq(bk.orig, 1, EndingAt - 1)), bk.ret[1].secret)
              /\ bk.input = SubSeq(bk.orig, EndingAt + 1, Len(bk.orig))
              /\ ~bk.closed
        /\ bk.ret[1].err = None => (EndingAt # 0 /\ bk.orig[EndingAt] \in {"\r", "\n"})

C31_Witness ==
    /\ PromptRead /\ bk.ret[1].err = None
    /\ bk.input # <<>>
    /\ \E i \in 2..Len(Typed) : Typed[i] = DEL /\ Typed[i - 1] # DEL
    /\ bk.ret[1].secret # bk.out

\* C32: a prompt that meets 0x03 or 0x04 first closes the session and
\* returns the error "password entry canceled" with an empty secret,
\* whatever was typed before.
C32_CancelEmpty ==
    (PromptRead /\ EndingAt # 0 /\ bk.orig[EndingAt] \in {ETX, EOT}) =>
        /\ bk.closed
        /\ bk.ret[1].err = Some(ErrCanceled)
        /\ bk.ret[1].secret = <<>>
        /\ Len(Typed) = EndingAt

C32_Witness ==
    /\ PromptRead /\ bk.ret[1].err = Some(ErrCanceled)
    /\ bk.closed /\ bk.ret[1].secret = <<>>
    /\ TrimSpace(bk.out) # <<>>

\* The asterisks on the client's screen: one per "*" written, less one per
\* erase sequence.
Occurrences(s, x) == Cardinality({i \in 1..Len(s) : s[i] = x})
Stars == Occurrences(bk.screen, "*") - Occurrences(bk.screen, Erase)

\* C39: after every byte the prompt has handled the client sees as many
\* asterisks as the password buffer has bytes, and a 0x7F read with an
\* empty buffer writes nothing and leaves the buffer empty.
C39_StarsMatchBuffer ==
    /\ [](Stars = Len(bk.out))
    /\ [][(ReadByte /\ Head(bk.input) = DEL /\ bk.out = <<>>)
             => (bk'.screen = bk.screen /\ bk'.out = <<>>)]_vars

C39_Witness ==
    /\ bk.pc = "reading"
    /\ Occurrences(Typed, DEL) = 2 /\ Occurrences(bk.screen, Erase) = 1
    /\ Len(bk.out) = 1 /\ Stars = 1

(***************************************************************************)
(* The serial backend's directory (SpecBackend).                           *)
(***************************************************************************)
\* file is the directory dir or lies below it.
Within(dir, file) ==
    \/ file = dir
    \/ /\ Len(file) > Len(dir) + 1
       /\ SubSeq(file, 1, Len(dir) + 1) = dir \o << "/" >>
       /\ \A e \in Range(Split(file, "/")) : e # << ".", "." >>

OpenedFile(n) == Out.effects[n].what.file

\* C40: with only a directory configured the serial handler opens no file
\* outside that directory, whatever the argument and the delimiter, and the
\* name it has checked the permission of is the name of the file it opens.
C40_StaysInDirectory ==
    (SerialCall /\ OnlyDirectory) =>
        \A n \in Opens :
            /\ Within(bk.in.settings.directory[1], OpenedFile(n))
            /\ IsAllowed(bk.in.perms, bk.in.user, << Base(OpenedFile(n)) >>)

====
